---- MODULE Spec2Model ----
(***************************************************************************)
(* Model of the collection walk and of the statistics merge of nft-scout.   *)
(*                                                                         *)
(* The walk is the scrape_collection branch of websocket_endpoint           *)
(* (src/web_server.py), from the `try` that starts the scrape (line 587)   *)
(* to the "complete" message (line 1494), driving                           *)
(* NFTScout.get_collection_nfts (src/src/nft_scout/scraper.py) and          *)
(* HeliusClient.get_collection_nfts (src/src/nft_scout/clients/helius.py).  *)
(* The request parsing and the address validation that precede line 587    *)
(* are not part of the model: a walk starts with a contract address that    *)
(* has the format of its chain.                                             *)
(*                                                                         *)
(* Page sizes and page ceilings are scaled down: the code's 100 (EVM page   *)
(* size), 1000 (Solana page size), 200/100 (max_count_pages) and 10000      *)
(* (max_pages) become EvmPageSize, SolPageSize, EvmMaxCountPages,           *)
(* SolMaxCountPages and MaxPages.                                           *)
(*                                                                         *)
(* Further specifications follow the clients (src/src/nft_scout/clients):  *)
(* the requests one client method sends (SpecRequest), _apply_rate_limit   *)
(* under concurrent coroutines (SpecPacing), the worker semaphore of       *)
(* NFTScout (SpecWorkers), and the page requests of a walk as they are     *)
(* sent and answered (SpecPager).                                          *)
(*                                                                         *)
(* What the connections of one server share is the one HeliusClient of     *)
(* the global NFTScout (SpecShared). The cache is followed through         *)
(* NFTScout.get_collection_nfts (SpecPages), RedisStorage (SpecRedis,      *)
(* src/src/nft_scout/storage/redis_adapter.py) and                         *)
(* NFTScout.get_wallet_nfts (SpecWallet). The webhook application          *)
(* (src/src/nft_scout/webhooks/app.py) is SpecWebhook, with the window,    *)
(* the per-ip limit and the buffer size scaled down to RateLimitWindow,    *)
(* MaxEventsPerIp and MaxEvents.                                           *)
(***************************************************************************)
EXTENDS Integers, Sequences, FiniteSets, TLC

\* ---------------------------------------------------------------- bounds
EvmPageSize == 2
SolPageSize == 3
EvmMaxCountPages == 3
SolMaxCountPages == 2
MaxPages == 6
\* A provider-reported total that is larger than anything a walk enumerates.
BigTotal == 40
\* The number of requests of one walk that a provider of mode "any" answers
\* with something else than an empty page.
AnyPages == 3

\* Python's None for an optional integer.
None == 0 - 1
\* Python truthiness of an optional integer: neither None nor 0.
Truthy(x) == x > 0

Min2(a, b) == IF a <= b THEN a ELSE b

NoCursor == "none"

\* ------------------------------------------------------- HeliusClient
\* The client's ad hoc fields: _current_collection, _collection_total,
\* _last_total.
HeliusFresh == [current |-> "unset", ctotal |-> None, ltotal |-> None]

\* helius.py 212-216: the fields are reset when another collection is asked for.
HeliusResetFor(h, collection_address) ==
    IF h.current # collection_address
    THEN [current |-> collection_address, ctotal |-> None, ltotal |-> None]
    ELSE h

\* helius.py 253-274: actual_total of the direct-address path.
HeliusActualTotal(cursor, r, limit) ==
    IF cursor = NoCursor
    THEN IF ~r.cur /\ r.n < limit THEN r.n
         ELSE IF r.cur THEN None
         ELSE r.total
    ELSE None

\* helius.py 276-288: what the direct-address path stores in
\* _collection_total / _last_total.
HeliusStoreTotal(h, cursor, r, limit) ==
    LET actual_total == HeliusActualTotal(cursor, r, limit) IN
    IF actual_total # None /\ h.ctotal = None
    THEN [h EXCEPT !.ctotal = actual_total, !.ltotal = actual_total]
    ELSE IF h.ctotal = None /\ r.total > 0
         THEN [h EXCEPT !.ctotal = r.total, !.ltotal = r.total]
         ELSE h

\* helius.py 562-567: the total put in the returned dict.
HeliusReturnedTotal(h) ==
    IF Truthy(h.ctotal) THEN h.ctotal
    ELSE IF Truthy(h.ltotal) THEN h.ltotal
    ELSE None

\* helius.py 217-603: the call after the reset of lines 212-216, on the
\* client fields h1 as they are when the provider's answer is processed.
HeliusAfterReset(h1, cursor, page_size, r) ==
    LET limit == Min2(page_size, 10000)
    IN
    IF r.path = "rpc"
    THEN LET h2 == HeliusStoreTotal(h1, cursor, r, limit) IN
         [h |-> h2,
          d |-> [n |-> r.n, cursor |-> r.cur, totalCount |-> r.n,
                 total |-> HeliusReturnedTotal(h2), haskey |-> TRUE,
                 has_more |-> (r.cur \/ r.n >= limit
                               \/ (r.total > 0 /\ r.n < r.total))]]
    ELSE IF r.path = "das"
    THEN [h |-> h1,
          d |-> [n |-> r.n, cursor |-> r.cur, totalCount |-> r.n,
                 total |-> HeliusReturnedTotal(h1), haskey |-> TRUE,
                 has_more |-> r.cur]]
    ELSE [h |-> h1,
          d |-> [n |-> 0, cursor |-> FALSE, totalCount |-> 0,
                 total |-> None, haskey |-> FALSE, has_more |-> FALSE]]

\* helius.py 204-603, direct-address path. r is the provider's raw answer:
\*   r.path = "rpc"   the RPC getAssetsByGroup answered (r.n items, r.cur: a
\*                    cursor is present, r.total: its "total" field)
\*   r.path = "das"   the RPC call failed and the DAS fallback answered
\*   r.path = "error" both failed: the outer except returns the empty dict
\* The result is the new client state and the returned dict; haskey tells
\* whether the dict carries a "has_more" key.
HeliusGetCollectionNfts(h0, collection_address, cursor, page_size, r) ==
    HeliusAfterReset(HeliusResetFor(h0, collection_address), cursor, page_size, r)

\* alchemy.py 120-151: the dict of AlchemyClient.get_contract_nfts for an
\* answer of r.n items with (r.cur) or without a nextToken.
AlchemyGetContractNfts(r) ==
    [n |-> r.n, cursor |-> r.cur, totalCount |-> None, total |-> None,
     haskey |-> FALSE, has_more |-> FALSE]

\* ------------------------------------------ NFTScout.get_collection_nfts
\* scraper.py 334-382: the CollectionNFTResponse built from the client's dict d
\* (h is the Helius client after the call; it is read only on Solana).
ScoutResponse(h, chain, d, page_size) ==
    LET has_more == IF d.haskey THEN d.has_more
                    ELSE (d.cursor \/ d.n >= page_size)
        from_dict == IF Truthy(d.total) THEN d.total
                     ELSE IF Truthy(d.totalCount) THEN d.totalCount
                     ELSE None
        collection_total ==
            IF ~Truthy(from_dict) /\ chain = "solana"
            THEN IF Truthy(h.ltotal) THEN h.ltotal
                 ELSE IF Truthy(h.ctotal) THEN h.ctotal
                 ELSE from_dict
            ELSE from_dict
    IN [n |-> d.n, total_count |-> d.n, total |-> collection_total,
        cursor |-> d.cursor, has_more |-> has_more]

NoResponse == [n |-> 0, total_count |-> 0, total |-> None,
               cursor |-> FALSE, has_more |-> FALSE]

\* ------------------------------------------------------------ providers
\* What the upstream provider answers to one page request. The provider is
\* outside the program: `provider.mode` fixes how it behaves.
\*   "any"       any page of at most page_size items, with or without cursor,
\*               on the first AnyPages requests of a walk, then empty pages
\*   "small"     a fixed collection of provider.k < page_size items
\*   "fullpage"  page_size items without cursor on the first two requests of
\*               a loop, page_size - 1 without cursor on the third, then empty
\*   "overlap"   a full page with a cursor, the same page again with a
\*               cursor, page_size - 1 new items without cursor, then empty
\*   "infinite"  always a full page with a cursor
\* i is the number of the request within its loop, served the number of
\* requests the walk has made before. r.fresh: the items are
\* ones not served before in this loop (otherwise the first r.n items again);
\* r.tok: the last item carries a usable token id.
OkPath(chain) == IF chain = "solana" THEN "rpc" ELSE "ok"

Raw(n, cur, total, path, fresh, tok) ==
    [n |-> n, cur |-> cur, total |-> total, path |-> path,
     fresh |-> fresh, tok |-> tok]

\* use: "count" for the count loop, which reads no item but the last one's
\* token id, "scrape" for the scrape loop and the info query, which never
\* read r.tok.
AnyResponses(chain, page_size, use) ==
    LET fail == IF chain = "solana" THEN "error" ELSE "raise"
        oks == IF chain = "solana" THEN {"rpc", "das"} ELSE {"ok"}
    IN { Raw(0, FALSE, 0, fail, TRUE, TRUE) }
       \cup UNION { UNION { { Raw(n, cur, t, path, fresh, tok) :
                   t \in (IF path = "rpc" THEN {0, n, BigTotal} ELSE {0}),
                   fresh \in (IF n = 0 \/ use = "count" THEN {TRUE} ELSE BOOLEAN),
                   tok \in (IF use = "count" /\ n = page_size /\ ~cur
                            THEN BOOLEAN ELSE {TRUE}) } :
                 n \in 0..page_size, cur \in BOOLEAN } : path \in oks }

\* The "total" field of an answer of n items from a scripted provider: the
\* number of items of the answer (prov.reports) or none.
ReportedTotal(prov, n) == IF prov.reports THEN n ELSE 0

Responses(prov, chain, page_size, i, use, served) ==
    IF prov.mode = "any"
    THEN IF served < AnyPages THEN AnyResponses(chain, page_size, use)
         ELSE { Raw(0, FALSE, 0, OkPath(chain), TRUE, TRUE) }
    ELSE IF prov.mode = "small"
    THEN LET n == Min2(prov.k, page_size)
         IN { Raw(n, FALSE, ReportedTotal(prov, n), OkPath(chain), FALSE, TRUE) }
    ELSE IF prov.mode = "fullpage"
    THEN LET n == IF i <= 2 THEN page_size
                  ELSE IF i = 3 THEN page_size - 1 ELSE 0
         IN { Raw(n, FALSE, ReportedTotal(prov, n), OkPath(chain), TRUE, TRUE) }
    ELSE IF prov.mode = "overlap"
    THEN LET n == IF i <= 2 THEN page_size
                  ELSE IF i = 3 THEN page_size - 1 ELSE 0
         IN { Raw(n, i <= 2, ReportedTotal(prov, n), OkPath(chain), i # 2, TRUE) }
    ELSE { Raw(page_size, TRUE, ReportedTotal(prov, page_size), OkPath(chain),
               TRUE, TRUE) }

\* ------------------------------------------------------------- the walk
VARIABLES
    chain,            \* the chain being scraped
    provider,         \* how the upstream sources behave (outside the program)
    pc,               \* where the handler is: "info", "stats", "count",
                      \* "scrape", "done"
    helius,           \* the HeliusClient fields
    cursor,           \* scrape loop: cursor of the next request
    total_scraped,
    seen_nfts,
    collection_total,
    page_count,       \* shared by the count loop and the scrape loop
    total_counted,
    counted_pairs,    \* the (token_id, contract_address) pairs of the items
                      \* the count loop has received
    current_cursor,   \* count loop: cursor of the next request
    consecutive_empty_pages,
    response,         \* the last CollectionNFTResponse
    nft_msgs,         \* the "nft" messages sent, in order
    complete,         \* the "complete" message, once sent
    fetches,          \* page requests issued by the info query, the count
                      \* loop and the scrape loop
    total_origin,     \* which assignment gave collection_total its value
    session,          \* what outlives a walk: the walk's number, the chain
                      \* requested, the cached statistics total, whether
                      \* the walk's statistics came from the cache, and the
                      \* result of the first walk
    loop_end,         \* which exit ended the count loop and the scrape loop
    stats_call,       \* a call of NFTScout.get_collection_stats of its own:
                      \* the sources' answers, the cache entry, the record
                      \* returned
    scout_call,       \* a call of an NFTScout method by another caller: the
                      \* method, the clients configured, the provider's
                      \* answer, the result
    adapter,          \* one call of a client method: the client, its keys,
                      \* the requests it sent upstream and what it returned
    limiter,          \* one client's _apply_rate_limit under concurrent
                      \* coroutines: the clock, _last_request_time, the
                      \* semaphore, each coroutine's position
    workers,          \* the NFTScout operations that run concurrently on
                      \* the one NFTScout of the server: _worker_semaphore
                      \* and each operation's position
    pager,            \* the page requests of one walk as the provider sees
                      \* them: those sent and not yet answered, and the order
                      \* of requests and answers
    shared,           \* the HeliusClient of the server's one NFTScout under
                      \* the page calls of several walks: its fields, which
                      \* call stored them, and each walk's position
    page_call,        \* one call of NFTScout.get_collection_nfts run twice,
                      \* on two contents of the cache
    redis_call,       \* the calls of a RedisStorage: the connection, the
                      \* value under the key, the call's position and outcome
    wallet_call,      \* the calls of NFTScout.get_wallet_nfts for one wallet
                      \* and chain: the cache entry and the last result
    webhook           \* the webhook application: the clock, rate_limit_store,
                      \* webhook_events, the requests between the rate check
                      \* and the append, and every timestamp ever accepted

walk_vars == <<chain, provider, pc, helius, cursor, total_scraped, seen_nfts,
               collection_total, page_count, total_counted, counted_pairs,
               current_cursor, consecutive_empty_pages, response, nft_msgs,
               complete, fetches,
               total_origin, session, loop_end>>

\* The variables of the clients and of the worker pool.
client_vars == <<adapter, limiter, workers, pager>>

\* The variables of what the connections of one server share.
\* The variables of the calls that use the cache.
storage_vars == <<page_call, redis_call, wallet_call, webhook>>

service_vars == <<shared, storage_vars>>

vars == <<walk_vars, stats_call, scout_call, client_vars, service_vars>>

contract_address == "addr"

\* An empty cache entry.
NoCache == 0 - 2

PageSize(c) == IF c = "solana" THEN SolPageSize ELSE EvmPageSize
MaxCountPages(c) == IF c = "solana" THEN SolMaxCountPages ELSE EvmMaxCountPages

\* The totals a statistics source may report: none, a small one, a large one.
StatsTotals == {None, 1, BigTotal}

Providers ==
    { p \in [mode : {"any", "small", "fullpage", "overlap", "infinite"},
             k : 0..(SolPageSize - 1), stats_total : StatsTotals,
             reports : BOOLEAN] :
        /\ (p.mode = "small") <=> (p.k > 0)
        /\ (p.mode = "any") => ~p.reports }

\* No call of get_collection_stats of its own is under way.
StatsIdle == [phase |-> "idle"]

\* No call of an NFTScout method by another caller is under way.
ScoutIdle == [phase |-> "idle"]

\* No client method is being called, no coroutine is in _apply_rate_limit and
\* no NFTScout operation is running.
AdapterIdle == [phase |-> "idle"]
LimiterIdle == [phase |-> "idle"]
WorkersIdle == [phase |-> "idle"]
PagerIdle == [phase |-> "idle"]

ClientsIdle ==
    /\ adapter = AdapterIdle
    /\ limiter = LimiterIdle
    /\ workers = WorkersIdle
    /\ pager = PagerIdle

\* No other connection is walking a collection.
SharedIdle == [phase |-> "idle"]

\* No call that uses the cache is under way.
PageCallIdle == [phase |-> "idle"]

RedisIdle == [phase |-> "idle"]

WalletIdle == [phase |-> "idle"]

WebhookIdle == [phase |-> "idle"]

StorageIdle ==
    /\ page_call = PageCallIdle
    /\ redis_call = RedisIdle
    /\ wallet_call = WalletIdle
    /\ webhook = WebhookIdle

ServicesIdle ==
    /\ shared = SharedIdle
    /\ StorageIdle

\* web_server.py 588-594: the state a walk starts in; the clients are new.
Init ==
    /\ chain \in {"solana", "ethereum"}
    /\ provider \in { p \in Providers : /\ p.k < PageSize(chain)
                                        /\ p.reports => chain = "solana" }
    /\ session = [run |-> 1, chain |-> chain, stats_cache |-> NoCache,
                  stats_hit |-> FALSE,
                  first |-> [emitted |-> {}, count |-> 0]]
    /\ pc = IF chain = "solana" THEN "info" ELSE "stats"
    /\ helius = HeliusFresh
    /\ cursor = NoCursor
    /\ total_scraped = 0
    /\ seen_nfts = {}
    /\ collection_total = None
    /\ page_count = 0
    /\ total_counted = 0
    /\ counted_pairs = {}
    /\ current_cursor = NoCursor
    /\ consecutive_empty_pages = 0
    /\ response = NoResponse
    /\ nft_msgs = <<>>
    /\ complete = [sent |-> FALSE, total_scraped |-> 0, collection_total |-> None]
    /\ fetches = [info |-> 0, count |-> 0, scrape |-> 0]
    /\ total_origin = "none"
    /\ loop_end = [count |-> "", scrape |-> ""]
    /\ stats_call = StatsIdle
    /\ scout_call = ScoutIdle
    /\ ClientsIdle
    /\ ServicesIdle

\* NFTScout.get_collection_nfts (scraper.py 240-382) for an answer r that
\* does not raise: the new Helius state and the CollectionNFTResponse.
GetCollectionNfts(h, c, cur, page_size, r) ==
    IF c = "solana"
    THEN LET g == HeliusGetCollectionNfts(h, contract_address, cur, page_size, r)
         IN [h |-> g.h, resp |-> ScoutResponse(g.h, c, g.d, page_size)]
    ELSE [h |-> h, resp |-> ScoutResponse(h, c, AlchemyGetContractNfts(r), page_size)]

\* A total that is the number of items of a page that ended the collection on
\* a request without cursor is an enumerated one; any other value taken from
\* a response is a reported one.
OriginOfResponseTotal(req_cursor, resp, page_size, value) ==
    IF req_cursor = NoCursor /\ ~resp.cursor /\ resp.n < page_size /\ value = resp.n
    THEN "enumerated" ELSE "reported"

\* web_server.py 828-852: should_count (100 is EvmPageSize, 1000 SolPageSize).
ShouldCount(c, ct) ==
    IF Truthy(ct) /\ ct > EvmPageSize /\ ct # EvmPageSize THEN FALSE
    ELSE IF c # "solana" /\ ~Truthy(ct) THEN TRUE
    ELSE IF ~Truthy(ct) THEN TRUE
    ELSE IF (c # "solana" /\ ct = EvmPageSize) \/ (c = "solana" /\ ct = SolPageSize)
    THEN TRUE
    ELSE IF c # "solana" /\ Truthy(ct) /\ ct <= EvmPageSize THEN TRUE
    ELSE FALSE

\* web_server.py 641-719: the Solana query for the total, before the statistics.
SolanaInfo ==
    /\ pc = "info"
    /\ \E r \in Responses(provider, chain, SolPageSize, 1, "scrape", 0) :
         \E g \in {GetCollectionNfts(HeliusFresh, chain, NoCursor, SolPageSize, r)} :
         LET ct == IF Truthy(g.resp.total) THEN g.resp.total
                   ELSE IF Truthy(g.h.ltotal) THEN g.h.ltotal
                   ELSE None
         IN /\ helius' = g.h
            /\ response' = g.resp
            /\ collection_total' = ct
            /\ total_origin' = IF ct = None THEN "none"
                               ELSE OriginOfResponseTotal(NoCursor, g.resp, SolPageSize, ct)
    /\ fetches' = [fetches EXCEPT !.info = 1]
    /\ pc' = "stats"
    /\ UNCHANGED <<service_vars, client_vars, scout_call, stats_call, chain, provider, cursor, total_scraped, seen_nfts, page_count,
                   total_counted, counted_pairs, current_cursor, consecutive_empty_pages,
                   nft_msgs, complete, session, loop_end>>

\* scraper.py 395-399 and 705-710: the total_supply of get_collection_stats,
\* answered from the cache when it holds an entry and cached otherwise.
GetCollectionStatsTotal(cached, fetched) ==
    IF cached # NoCache THEN cached ELSE fetched

\* web_server.py 721-761 (Solana) and 768-821 (EVM): the statistics total
\* replaces collection_total when it is truthy; then 828-876: should_count
\* and the start state of the count loop.
FetchStats ==
    /\ pc = "stats"
    /\ LET st == GetCollectionStatsTotal(session.stats_cache, provider.stats_total)
           ct == IF Truthy(st) THEN st ELSE collection_total
       IN /\ collection_total' = ct
          /\ session' = [session EXCEPT !.stats_cache = st,
                                        !.stats_hit = session.stats_cache # NoCache]
          /\ total_origin' = IF Truthy(st) THEN "stats" ELSE total_origin
          /\ IF ShouldCount(chain, ct)
             THEN /\ pc' = "count"
                  /\ total_counted' = 0
                  /\ counted_pairs' = {}
                  /\ current_cursor' = NoCursor
                  /\ page_count' = 0
                  /\ consecutive_empty_pages' = 0
             ELSE /\ pc' = "scrape"
                  /\ UNCHANGED <<service_vars, client_vars, scout_call, stats_call, total_counted, counted_pairs, current_cursor, page_count,
                                 consecutive_empty_pages>>
    /\ UNCHANGED <<service_vars, client_vars, scout_call, stats_call, chain, provider, helius, cursor, total_scraped, seen_nfts,
                   response, nft_msgs, complete, fetches, loop_end>>

Served(f) == f.info + f.count + f.scrape

CompleteMsg(ts, ct) == [sent |-> TRUE, total_scraped |-> ts, collection_total |-> ct]

\* The token ids of a page of n items: new ones after the highest id seen, or
\* the first n of the collection again.
MaxToken(seen) ==
    IF seen = {} THEN 0
    ELSE LET x == CHOOSE y \in seen : \A z \in seen : z[1] <= y[1] IN x[1]

PageItems(seen, n, fresh) ==
    LET base == IF fresh THEN MaxToken(seen) ELSE 0
    IN [j \in 1..n |-> base + j]

\* The (token_id, contract_address) pairs of the items of a page.
ItemPairs(items) == { <<items[j], contract_address>> : j \in DOMAIN items }

\* web_server.py 905-970: what one iteration of the count loop decides after
\* a page of n items: the exit taken ("" when the loop goes on) and the cursor
\* of the next request. "tok" is a cursor made from the last token id.
CountDecision(n, has_cursor, tok, cep, pgc, page_size, maxp, cur) ==
    IF n = 0 /\ cep >= 2 THEN [end |-> "empty", cursor |-> cur]
    ELSE IF has_cursor THEN [end |-> "", cursor |-> "cur"]
    ELSE IF n = page_size
    THEN IF tok THEN [end |-> "", cursor |-> "tok"]
         ELSE IF pgc < maxp - 1 THEN [end |-> "", cursor |-> cur]
         ELSE [end |-> "notoken", cursor |-> cur]
    ELSE [end |-> "partial", cursor |-> cur]

\* web_server.py 878-984: one iteration of the count loop and, when the loop
\* ends with it, the assignment of the counted total.
CountPage ==
    /\ pc = "count"
    /\ page_count < MaxCountPages(chain)
    /\ \E r \in Responses(provider, chain, PageSize(chain), fetches.count + 1, "count",
                         Served(fetches)) :
         \E g \in {GetCollectionNfts(helius, chain, current_cursor, PageSize(chain), r)} :
         LET raised == r.path = "raise"
             n == g.resp.n
             tc == IF raised THEN total_counted ELSE total_counted + n
             pgc == IF raised THEN page_count ELSE page_count + 1
             cep == IF raised THEN consecutive_empty_pages
                    ELSE IF n = 0 THEN consecutive_empty_pages + 1 ELSE 0
             d == CountDecision(n, g.resp.cursor, r.tok, cep, pgc, PageSize(chain),
                                MaxCountPages(chain), current_cursor)
             end == IF raised THEN "error"
                    ELSE IF d.end # "" THEN d.end
                    ELSE IF pgc >= MaxCountPages(chain) THEN "limit"
                    ELSE ""
         IN /\ helius' = IF raised THEN helius ELSE g.h
            /\ response' = IF raised THEN response ELSE g.resp
            /\ total_counted' = tc
            /\ counted_pairs' = IF raised THEN counted_pairs
                                ELSE counted_pairs
                                     \cup ItemPairs(PageItems(counted_pairs, n, r.fresh))
            /\ page_count' = pgc
            /\ consecutive_empty_pages' = cep
            /\ current_cursor' = IF raised THEN current_cursor ELSE d.cursor
            /\ loop_end' = [loop_end EXCEPT !.count = end]
            /\ pc' = IF end = "" THEN "count" ELSE "scrape"
            /\ collection_total' = IF end # "" /\ tc > 0 THEN tc ELSE collection_total
            /\ total_origin' = IF end # "" /\ tc > 0
                               THEN IF end \in {"partial", "empty"} THEN "counted"
                                    ELSE "truncated"
                               ELSE total_origin
    /\ fetches' = [fetches EXCEPT !.count = @ + 1]
    /\ UNCHANGED <<service_vars, client_vars, scout_call, stats_call, chain, provider, cursor, total_scraped, seen_nfts, nft_msgs,
                   complete, session>>

\* web_server.py 1232-1303: the items of a page in order; an item whose
\* (token_id, contract_address) was seen is skipped, the others are recorded,
\* counted and sent.
\* A walk that sends every item, seen or not.
RECURSIVE EmitPageUnchecked(_, _)
EmitPageUnchecked(items, st) ==
    IF items = <<>> THEN st
    ELSE LET nft_id == <<Head(items), contract_address>>
         IN EmitPageUnchecked(Tail(items),
                [seen |-> st.seen \cup {nft_id},
                 scraped |-> st.scraped + 1,
                 msgs |-> Append(st.msgs, [nft |-> nft_id,
                                           total_scraped |-> st.scraped + 1])])

RECURSIVE EmitPage(_, _)
EmitPage(items, st) ==
    IF items = <<>> THEN st
    ELSE LET nft_id == <<Head(items), contract_address>>
         IN EmitPage(Tail(items),
                IF nft_id \in st.seen THEN st
                ELSE [seen |-> st.seen \cup {nft_id},
                      scraped |-> st.scraped + 1,
                      msgs |-> Append(st.msgs, [nft |-> nft_id,
                                                total_scraped |-> st.scraped + 1])])

\* web_server.py 1093-1131: a walk that has no total takes one from the
\* response or from the Helius client.
AdoptTotal(c, ct, h, resp) ==
    IF ct # None THEN ct
    ELSE LET a == IF Truthy(resp.total) THEN resp.total
                  ELSE IF resp.total_count > resp.n THEN resp.total_count
                  ELSE None
         IN IF c = "solana"
            THEN IF Truthy(h.ltotal) THEN h.ltotal
                 ELSE IF Truthy(h.ctotal) THEN h.ctotal
                 ELSE a
            ELSE a

\* web_server.py 1364-1457: whether the scrape loop goes on after a page and
\* with which cursor.
ScrapeDecision(c, ct, ts, resp, cur) ==
    LET rc == resp.cursor
        keep == IF rc THEN "cur" ELSE cur
    IN IF Truthy(ct) /\ ts < ct THEN [cont |-> TRUE, cursor |-> keep]
       ELSE IF (c = "solana" /\ resp.n >= SolPageSize)
               \/ (c # "solana" /\ resp.n >= EvmPageSize)
       THEN [cont |-> TRUE, cursor |-> keep]
       ELSE IF resp.has_more THEN [cont |-> TRUE, cursor |-> keep]
       ELSE IF rc THEN [cont |-> TRUE, cursor |-> "cur"]
       ELSE IF cur # NoCursor THEN [cont |-> TRUE, cursor |-> cur]
       ELSE IF Truthy(ct) /\ ts < ct
       THEN [cont |-> resp.n >= EvmPageSize, cursor |-> cur]
       ELSE [cont |-> resp.n >= EvmPageSize, cursor |-> cur]

\* web_server.py 1059-1494: one iteration of the scrape loop and, when the
\* loop ends with it, the "complete" message. found: the probe of the other
\* EVM chains (1184-1207) finds the collection.
ScrapePage ==
    /\ pc = "scrape"
    /\ page_count < MaxPages
    /\ \E r \in Responses(provider, chain, PageSize(chain), fetches.scrape + 1, "scrape",
                         Served(fetches)),
          found \in (IF provider.mode = "any" /\ page_count = 0 /\ chain = "ethereum"
                     THEN BOOLEAN ELSE {FALSE}) :
         \E g \in {GetCollectionNfts(helius, chain, cursor, PageSize(chain), r)} :
         LET raised == r.path = "raise"
             resp == g.resp
             ct == IF raised THEN collection_total
                   ELSE AdoptTotal(chain, collection_total, g.h, resp)
             probe == ~raised /\ resp.n = 0 /\ page_count = 0 /\ chain = "ethereum"
             c2 == IF probe /\ found THEN "polygon" ELSE chain
             stop == IF raised THEN "error"
                     ELSE IF resp.n = 0 /\ page_count # 0 THEN "empty"
                     ELSE IF resp.n = 0 /\ ~(probe /\ found) THEN "notfound"
                     ELSE ""
         IN \E st \in {IF stop # ""
                   THEN [seen |-> seen_nfts, scraped |-> total_scraped, msgs |-> nft_msgs]
                   ELSE EmitPage(PageItems(seen_nfts, resp.n, r.fresh),
                                 [seen |-> seen_nfts, scraped |-> total_scraped,
                                  msgs |-> nft_msgs])} :
         LET d == ScrapeDecision(c2, ct, st.scraped, resp, cursor)
             pgc == IF stop = "" /\ d.cont THEN page_count + 1 ELSE page_count
             end == IF stop # "" THEN stop
                    ELSE IF ~d.cont THEN "natural"
                    ELSE IF pgc >= MaxPages THEN "limit"
                    ELSE ""
         IN /\ helius' = IF raised THEN helius ELSE g.h
            /\ response' = IF raised THEN response ELSE resp
            /\ collection_total' = ct
            /\ total_origin' = IF collection_total = None /\ ct # None
                               THEN OriginOfResponseTotal(cursor, resp, PageSize(chain), ct)
                               ELSE total_origin
            /\ chain' = c2
            /\ seen_nfts' = st.seen
            /\ total_scraped' = st.scraped
            /\ nft_msgs' = st.msgs
            /\ cursor' = IF stop = "" THEN d.cursor ELSE cursor
            /\ page_count' = pgc
            /\ loop_end' = [loop_end EXCEPT !.scrape = end]
            /\ pc' = IF end = "" THEN "scrape" ELSE "done"
            /\ complete' = IF end = "" THEN complete ELSE CompleteMsg(st.scraped, ct)
    /\ fetches' = [fetches EXCEPT !.scrape = @ + 1]
    /\ UNCHANGED <<service_vars, client_vars, scout_call, stats_call, provider, total_counted, counted_pairs, current_cursor, consecutive_empty_pages,
                   session>>

Next == SolanaInfo \/ FetchStats \/ CountPage \/ ScrapePage

Spec == Init /\ [][Next]_vars

\* ------------------------------------------------------- a second walk
\* The pairs sent in "nft" messages.
Emitted(msgs) == { msgs[i].nft : i \in DOMAIN msgs }

\* A walk that leaves seen_nfts as the walk before it left it.
SeenAtStartKept(seen) == seen

\* web_server.py 590: seen_nfts at the start of a walk, whatever it was.
SeenAtStart(seen) == {}

\* web_server.py 492-495 and 588-612: the same scrape_collection request
\* arrives again on the connection when the first walk is over. The walk's
\* locals of lines 588-594 start anew and the browser's list is cleared; the
\* Helius client, the statistics cache and the other locals of the handler
\* are as the first walk left them.
Restart ==
    /\ pc = "done"
    /\ session.run = 1
    /\ session' = [session EXCEPT !.run = 2,
                      !.stats_hit = FALSE,
                      !.first = [emitted |-> Emitted(nft_msgs),
                                 count |-> total_scraped]]
    /\ chain' = session.chain
    /\ pc' = IF session.chain = "solana" THEN "info" ELSE "stats"
    /\ cursor' = NoCursor
    /\ total_scraped' = 0
    /\ seen_nfts' = SeenAtStart(seen_nfts)
    /\ collection_total' = None
    /\ page_count' = 0
    /\ nft_msgs' = <<>>
    /\ complete' = [sent |-> FALSE, total_scraped |-> 0, collection_total |-> None]
    /\ fetches' = [info |-> 0, count |-> 0, scrape |-> 0]
    /\ total_origin' = "none"
    /\ loop_end' = [count |-> "", scrape |-> ""]
    /\ UNCHANGED <<service_vars, client_vars, scout_call, stats_call, provider, helius, total_counted, counted_pairs, current_cursor,
                   consecutive_empty_pages, response>>

\* Two walks of one collection against a provider that answers the second
\* walk as it answered the first.
InitTwice == Init /\ provider.mode # "any"

NextTwice == Next \/ Restart

SpecTwice == InitTwice /\ [][NextTwice]_vars

\* -------------------------------------------- NFTScout.get_collection_stats
\* The statistics fields followed: volume_24h is merged as total_volume is,
\* volume_30d as volume_7d, sales_7d and sales_30d as sales_24h.
StatsRecord(ts, own, fp, tv, v7, s24, mc, op) ==
    [total_supply |-> ts, total_owners |-> own, floor_price |-> fp,
     total_volume |-> tv, volume_7d |-> v7, sales_24h |-> s24,
     market_cap |-> mc, owners_percentage |-> op]

\* models.py 128-159: a CollectionStats with no field given.
EmptyStats == StatsRecord(None, None, None, None, None, None, None, None)

\* Sample values of the sources' fields; each source has its own, so that the
\* origin of a merged value shows.
HeliusSupply == 5
MarketSupply == 4
MoralisSupply == 6
SeleniumSupply == 7
MarketOwners == 2
MarketSales == 3
\* normalizer.py 265: lamports per SOL.
LamportsPerSol == 1000000000
\* normalizer.py 442: the raw amount is divided by 1e18; the raw amounts of
\* the model are given in units of 10^9 wei, so that they are integers TLC
\* can hold.
RawPerEth == 1000000000

\* normalizer.py 248-257.
NormalizeHeliusCollection(d) ==
    [EmptyStats EXCEPT !.total_supply = d.totalSupply]

\* normalizer.py 260-386; the answer carries none of volume24h, volume30d.
NormalizeMagicEdenCollection(d) ==
    StatsRecord(IF Truthy(d.totalSupply) THEN d.totalSupply ELSE None,
                None,
                IF Truthy(d.floorPrice) THEN d.floorPrice \div LamportsPerSol ELSE None,
                IF Truthy(d.volumeAll) THEN d.volumeAll \div LamportsPerSol ELSE None,
                IF Truthy(d.volume7d) THEN d.volume7d \div LamportsPerSol ELSE None,
                d.sales24h,
                None, None)

\* normalizer.py 424-600. owners_percentage is (total_owners / total_supply)
\* * 100; the sample values divide without remainder.
NormalizeReservoirCollection(d) ==
    LET floor_price == IF Truthy(d.floorRaw) THEN d.floorRaw \div RawPerEth ELSE None
        total_supply == IF Truthy(d.tokenCount) THEN d.tokenCount ELSE None
    IN StatsRecord(total_supply, d.ownerCount, floor_price, d.volumeAllTime,
                   d.volume7day, d.sales1day,
                   IF Truthy(floor_price) /\ Truthy(total_supply)
                   THEN floor_price * total_supply ELSE None,
                   IF Truthy(d.ownerCount) /\ Truthy(total_supply)
                   THEN (d.ownerCount * 100) \div total_supply ELSE None)

\* normalizer.py 387-407.
NormalizeMoralisCollection(d) ==
    [EmptyStats EXCEPT !.total_supply = d.total_supply]

\* base with the fields fs taken from top where top's value is truthy.
Overlay(base, top, fs) ==
    [f \in DOMAIN base |-> IF f \in fs /\ Truthy(top[f]) THEN top[f] ELSE base[f]]

\* base with the fields fs taken from fill where base has no truthy value.
GapFill(base, fill, fs) ==
    [f \in DOMAIN base |->
        IF f \in fs /\ ~Truthy(base[f]) /\ Truthy(fill[f]) THEN fill[f] ELSE base[f]]

\* scraper.py 516-548: the fields copied from Magic Eden onto a Helius base.
MagicEdenMergedFields == {"total_supply", "floor_price", "total_volume", "total_owners"}

\* scraper.py 606-641: the fields copied from Reservoir onto an Alchemy base.
ReservoirMergedFields ==
    {"total_supply", "floor_price", "total_volume", "volume_7d", "sales_24h",
     "total_owners", "market_cap", "owners_percentage"}

\* An answer of Magic Eden or Reservoir in which no field is given: an empty dict.
EmptyAnswer(d) == \A f \in DOMAIN d \ {"ok"} : d[f] = None

\* scraper.py 494-714: the record get_collection_stats builds from the answers
\* in `results`; a source with ok = FALSE is not in results (not configured,
\* or its call raised).
MergeStats(c, in) ==
    LET base == IF c = "solana"
                THEN [has |-> in.helius.ok,
                      s |-> IF in.helius.ok THEN NormalizeHeliusCollection(in.helius)
                            ELSE EmptyStats]
                ELSE [has |-> in.alchemy.ok, s |-> EmptyStats]
        market == IF c = "solana"
                  THEN IF in.magiceden.ok /\ ~EmptyAnswer(in.magiceden)
                       THEN IF base.has
                            THEN [has |-> TRUE,
                                  s |-> Overlay(base.s,
                                                NormalizeMagicEdenCollection(in.magiceden),
                                                MagicEdenMergedFields)]
                            ELSE [has |-> TRUE,
                                  s |-> NormalizeMagicEdenCollection(in.magiceden)]
                       ELSE base
                  ELSE IF in.reservoir.ok /\ base.has /\ ~EmptyAnswer(in.reservoir)
                       THEN [has |-> TRUE,
                             s |-> Overlay(base.s,
                                           NormalizeReservoirCollection(in.reservoir),
                                           ReservoirMergedFields)]
                       ELSE base
        filled == IF c # "solana" /\ in.moralis.ok /\ market.has
                  THEN [has |-> TRUE,
                        s |-> GapFill(market.s, NormalizeMoralisCollection(in.moralis),
                                      {"total_supply"})]
                  ELSE market
        scraped == IF in.selenium.ok /\ filled.has
                   THEN GapFill(filled.s,
                                [EmptyStats EXCEPT !.floor_price = in.selenium.floor_price,
                                                   !.total_supply = in.selenium.total_supply],
                                {"floor_price", "total_supply"})
                   ELSE filled.s
    IN IF filled.has THEN scraped ELSE EmptyStats

\* Python's None and the empty string of an optional string field.
NoName == "None"
EmptyString == ""
NameGiven(nm) == nm \notin {NoName, EmptyString}

\* Sample payloads: a payload that has data carries the collection's name
\* under the key its normalizer reads; the empty dict carries none.
SourceName(has_data, nm) == IF has_data THEN nm ELSE NoName

NoIdentity == [has |-> FALSE, contract_address |-> EmptyString, name |-> NoName]

\* scraper.py 494-703: the contract_address and the name of the record
\* get_collection_stats builds. The Helius and the Alchemy normalizers read
\* the address from keys ("collection_address", "address") with "" as the
\* default; the Helius metadata has no such key. On EVM the name is never
\* empty after the Alchemy step, so that Moralis fills no name.
MergeIdentity(c, in) ==
    LET base == IF c = "solana"
                THEN IF in.helius.ok
                     THEN [has |-> TRUE, contract_address |-> EmptyString,
                           name |-> SourceName(~EmptyAnswer(in.helius), "helius")]
                     ELSE NoIdentity
                ELSE IF in.alchemy.ok
                     THEN [has |-> TRUE,
                           contract_address |-> IF in.alchemy.data THEN contract_address
                                                ELSE EmptyString,
                           name |-> IF in.alchemy.data THEN "alchemy"
                                    ELSE contract_address]
                     ELSE NoIdentity
        market == IF c = "solana"
                  THEN IF in.magiceden.ok /\ ~EmptyAnswer(in.magiceden) /\ ~base.has
                       THEN [has |-> TRUE, contract_address |-> contract_address,
                             name |-> "magiceden"]
                       ELSE base
                  ELSE IF /\ in.reservoir.ok /\ base.has /\ ~EmptyAnswer(in.reservoir)
                          /\ (~NameGiven(base.name) \/ base.name = contract_address)
                       THEN [base EXCEPT !.name = "reservoir"]
                       ELSE base
        scraped == IF /\ in.selenium.ok /\ market.has /\ ~EmptyAnswer(in.selenium)
                      /\ ~NameGiven(market.name)
                   THEN [market EXCEPT !.name = "selenium"]
                   ELSE market
    IN IF scraped.has
       THEN [contract_address |-> scraped.contract_address, name |-> scraped.name]
       ELSE [contract_address |-> contract_address, name |-> contract_address]

\* The descriptions the sources give, beside the fields of `in`: each source
\* its own sample text, or none. Alchemy's contract metadata is normalized
\* without a description (normalizer.py 239-245).
DescriptionSources == {"helius", "magiceden", "reservoir", "moralis", "selenium"}

NoDescriptions == [src \in DescriptionSources |-> NoName]

\* Only a source that answered with a payload that is not empty can give one.
DescriptionOf(in, src) ==
    IF in[src].ok /\ ~EmptyAnswer(in[src]) THEN {NoName, src} ELSE {NoName}

DescriptionInputs(in) ==
    [helius : DescriptionOf(in, "helius"), magiceden : DescriptionOf(in, "magiceden"),
     reservoir : DescriptionOf(in, "reservoir"), moralis : DescriptionOf(in, "moralis"),
     selenium : DescriptionOf(in, "selenium")]

\* stats.description = text when text is given (scraper.py 531-532).
Replace(description, text) == IF NameGiven(text) THEN text ELSE description

\* `if not stats.description and text` (scraper.py 564, 624, 654, 684).
FillGap(description, text) ==
    IF ~NameGiven(description) /\ NameGiven(text) THEN text ELSE description

\* scraper.py 494-703: the description of the record get_collection_stats
\* builds: on Solana the Helius description, replaced by Magic Eden's when
\* that is given, on EVM none from Alchemy; then the gaps filled from
\* Reservoir, Moralis and Selenium in this order. Without a base record on
\* EVM, or without any record, the overlays are not looked at.
MergeDescription(c, in, meta) ==
    LET base == IF c = "solana"
                THEN [has |-> in.helius.ok, d |-> IF in.helius.ok THEN meta.helius ELSE NoName]
                ELSE [has |-> in.alchemy.ok, d |-> NoName]
        market == IF c = "solana"
                  THEN IF in.magiceden.ok /\ ~EmptyAnswer(in.magiceden)
                       THEN IF base.has
                            THEN [has |-> TRUE, d |-> Replace(base.d, meta.magiceden)]
                            ELSE [has |-> TRUE, d |-> meta.magiceden]
                       ELSE base
                  ELSE IF in.reservoir.ok /\ base.has /\ ~EmptyAnswer(in.reservoir)
                       THEN [has |-> TRUE, d |-> FillGap(base.d, meta.reservoir)]
                       ELSE base
        filled == IF in.moralis.ok /\ market.has
                  THEN [has |-> TRUE, d |-> FillGap(market.d, meta.moralis)]
                  ELSE market
        scraped == IF in.selenium.ok /\ filled.has /\ ~EmptyAnswer(in.selenium)
                   THEN FillGap(filled.d, meta.selenium)
                   ELSE filled.d
    IN IF filled.has THEN scraped ELSE NoName

\* The answers of the sources. ok = FALSE: the source is not in `results`.
HeliusAnswers ==
    { [ok |-> FALSE, totalSupply |-> None] }
    \cup { [ok |-> TRUE, totalSupply |-> t] : t \in {None, HeliusSupply} }

MagicEdenAbsent ==
    [ok |-> FALSE, floorPrice |-> None, volumeAll |-> None, volume7d |-> None,
     sales24h |-> None, totalSupply |-> None]

MagicEdenAnswers ==
    { MagicEdenAbsent }
    \cup [ok : {TRUE}, floorPrice : {None, 0, 2 * LamportsPerSol},
          volumeAll : {None, 2 * LamportsPerSol}, volume7d : {None, LamportsPerSol},
          sales24h : {None, MarketSales}, totalSupply : {None, 0, MarketSupply}]

ReservoirAbsent ==
    [ok |-> FALSE, floorRaw |-> None, volumeAllTime |-> None, volume7day |-> None,
     sales1day |-> None, ownerCount |-> None, tokenCount |-> None]

ReservoirAnswers ==
    { ReservoirAbsent }
    \cup [ok : {TRUE}, floorRaw : {None, 0, 2 * RawPerEth},
          volumeAllTime : {None, 2}, volume7day : {None, 1},
          sales1day : {None, MarketSales}, ownerCount : {None, MarketOwners},
          tokenCount : {None, 0, MarketSupply}]

\* Alchemy's contract metadata gives none of the statistics fields followed;
\* data tells the metadata from the empty dict the client returns on a failure
\* of its own (alchemy.py 94-96).
AlchemyAbsent == [ok |-> FALSE, data |-> FALSE]

AlchemyAnswers == { AlchemyAbsent } \cup [ok : {TRUE}, data : BOOLEAN]

MoralisAnswers ==
    { [ok |-> FALSE, total_supply |-> None] }
    \cup { [ok |-> TRUE, total_supply |-> t] : t \in {None, MoralisSupply} }

SeleniumAnswers ==
    { [ok |-> FALSE, floor_price |-> None, total_supply |-> None] }
    \cup [ok : {TRUE}, floor_price : {None, 1}, total_supply : {None, SeleniumSupply}]

\* scraper.py 404-449: the sources asked on each chain. On Solana the Moralis
\* answer fills names only and is left out.
StatsInputs(c) ==
    IF c = "solana"
    THEN [helius : HeliusAnswers, magiceden : MagicEdenAnswers,
          alchemy : {AlchemyAbsent}, reservoir : {ReservoirAbsent},
          moralis : {[ok |-> FALSE, total_supply |-> None]},
          selenium : SeleniumAnswers]
    ELSE [helius : {[ok |-> FALSE, totalSupply |-> None]},
          magiceden : {MagicEdenAbsent},
          alchemy : AlchemyAnswers, reservoir : ReservoirAnswers,
          moralis : MoralisAnswers, selenium : SeleniumAnswers]

\* A walk that is over, for the calls of get_collection_stats of their own.
WalkOver ==
    /\ chain = "ethereum"
    /\ provider = [mode |-> "small", k |-> 1, stats_total |-> None, reports |-> FALSE]
    /\ pc = "done"
    /\ helius = HeliusFresh
    /\ cursor = NoCursor
    /\ total_scraped = 0
    /\ seen_nfts = {}
    /\ collection_total = None
    /\ page_count = 0
    /\ total_counted = 0
    /\ counted_pairs = {}
    /\ current_cursor = NoCursor
    /\ consecutive_empty_pages = 0
    /\ response = NoResponse
    /\ nft_msgs = <<>>
    /\ complete = CompleteMsg(0, None)
    /\ fetches = [info |-> 0, count |-> 0, scrape |-> 0]
    /\ total_origin = "none"
    /\ loop_end = [count |-> "", scrape |-> "notfound"]
    /\ session = [run |-> 2, chain |-> "ethereum", stats_cache |-> None,
                  stats_hit |-> FALSE,
                  first |-> [emitted |-> {}, count |-> 0]]

InitStats ==
    /\ WalkOver
    /\ scout_call = ScoutIdle
    /\ ClientsIdle
    /\ ServicesIdle
    /\ \E c \in {"solana", "ethereum"} : \E in \in StatsInputs(c) :
         \E meta \in DescriptionInputs(in) :
         stats_call = [phase |-> "input", chain |-> c, in |-> in, meta |-> meta,
                       calls |-> 0,
                       cache |-> [has |-> FALSE, s |-> EmptyStats],
                       out |-> EmptyStats,
                       ident |-> [contract_address |-> EmptyString, name |-> NoName],
                       description |-> NoName]

\* scraper.py 384-714: one call of get_collection_stats: the cached record
\* when there is one, else the record merged from the answers, which is cached.
GetCollectionStats ==
    /\ stats_call.phase \in {"input", "returned"}
    /\ stats_call.calls < 2
    /\ LET out == IF stats_call.cache.has THEN stats_call.cache.s
                  ELSE MergeStats(stats_call.chain, stats_call.in)
       IN stats_call' = [stats_call EXCEPT !.phase = "returned", !.calls = @ + 1,
                                           !.cache = [has |-> TRUE, s |-> out],
                                           !.out = out,
                                           !.ident = IF stats_call.cache.has THEN @
                                                     ELSE MergeIdentity(stats_call.chain,
                                                                        stats_call.in),
                                           !.description =
                                               IF stats_call.cache.has THEN @
                                               ELSE MergeDescription(stats_call.chain,
                                                        stats_call.in, stats_call.meta)]
    /\ UNCHANGED <<service_vars, walk_vars, scout_call, client_vars>>

NextStats == GetCollectionStats

SpecStats == InitStats /\ [][NextStats]_vars

\* ------------------------------------- the concurrent calls of the sources
\* scraper.py 402-449: the tasks of a call, by key.
TaskKeys(c) ==
    IF c = "solana" THEN {"helius", "magiceden", "selenium"}
    ELSE {"alchemy", "moralis", "reservoir", "selenium"}

\* scraper.py 403: results = {}, no source in it.
NoResults ==
    [helius |-> [ok |-> FALSE, totalSupply |-> None],
     magiceden |-> MagicEdenAbsent,
     alchemy |-> AlchemyAbsent,
     reservoir |-> ReservoirAbsent,
     moralis |-> [ok |-> FALSE, total_supply |-> None],
     selenium |-> [ok |-> FALSE, floor_price |-> None, total_supply |-> None]]

\* A store that keeps the outcome of the first task that succeeded only.
GatherStoreFirstOnly(task_results, key, outcome) ==
    IF \E k \in DOMAIN task_results : task_results[k].ok
    THEN task_results
    ELSE [task_results EXCEPT ![key] = outcome]

\* scraper.py 456-473: limited_task returns (task_key, outcome) and
\* asyncio.gather keeps each task's return value in the task's own place,
\* whenever the task completes.
GatherStore(task_results, key, outcome) ==
    [task_results EXCEPT ![key] = outcome]

\* scraper.py 474-486: results takes the outcomes that are no exception.
CollectResults(task_results) ==
    [k \in DOMAIN task_results |->
        IF task_results[k].ok THEN task_results[k] ELSE NoResults[k]]

\* The answers of a call whose tasks complete one by one: those of
\* StatsInputs in which the marketplace source gives all its fields or none.
GatherInputs(c) ==
    { in \in StatsInputs(c) :
        /\ \A f, g \in DOMAIN in.magiceden \ {"ok"} :
              Truthy(in.magiceden[f]) = Truthy(in.magiceden[g])
        /\ \A f, g \in DOMAIN in.reservoir \ {"ok"} :
              Truthy(in.reservoir[f]) = Truthy(in.reservoir[g]) }

InitGather ==
    /\ WalkOver
    /\ scout_call = ScoutIdle
    /\ ClientsIdle
    /\ ServicesIdle
    /\ \E c \in {"solana", "ethereum"} : \E in \in GatherInputs(c) :
         stats_call = [phase |-> "gather", chain |-> c, in |-> in,
                       pending |-> TaskKeys(c), arrived |-> <<>>,
                       task_results |-> NoResults,
                       out |-> EmptyStats,
                       ident |-> [contract_address |-> EmptyString, name |-> NoName]]

\* scraper.py 456-465 and 473: one of the tasks under way completes.
TaskCompletes ==
    /\ stats_call.phase = "gather"
    /\ \E k \in stats_call.pending :
         stats_call' = [stats_call EXCEPT
                           !.pending = @ \ {k},
                           !.arrived = Append(@, k),
                           !.task_results = GatherStore(@, k, stats_call.in[k])]
    /\ UNCHANGED <<service_vars, walk_vars, scout_call, client_vars>>

\* scraper.py 473-703: gather returns when every task has completed; the
\* record is merged from the results collected.
MergeGathered ==
    /\ stats_call.phase = "gather"
    /\ stats_call.pending = {}
    /\ \E results \in {CollectResults(stats_call.task_results)} :
         stats_call' = [stats_call EXCEPT
                           !.phase = "returned",
                           !.out = MergeStats(stats_call.chain, results),
                           !.ident = MergeIdentity(stats_call.chain, results)]
    /\ UNCHANGED <<service_vars, walk_vars, scout_call, client_vars>>

NextGather == TaskCompletes \/ MergeGathered

SpecGather == InitGather /\ [][NextGather]_vars

\* ------------------------------------------- NFTScout without a client
\* The clients an NFTScout may have been built with.
ClientSets == [helius : BOOLEAN, alchemy : BOOLEAN, moralis : BOOLEAN,
               quicknode : BOOLEAN]

\* Python's None for a client.
NoClient == "None"

\* scraper.py 140-151: _get_client_for_chain.
GetClientForChain(c, cl) ==
    IF c = "solana" THEN (IF cl.helius THEN "helius" ELSE NoClient)
    ELSE IF cl.alchemy THEN "alchemy"
    ELSE IF cl.moralis THEN "moralis"
    ELSE IF cl.quicknode THEN "quicknode"
    ELSE NoClient

\* The result of a call: it raised, or it returned n items with total_count,
\* or it returned the statistics record stats with the identity ident.
ScoutResult(raised, n, stats, ident) ==
    [raised |-> raised, n |-> n, total_count |-> n, stats |-> stats, ident |-> ident]

NoScoutResult ==
    ScoutResult(FALSE, 0, EmptyStats, [contract_address |-> EmptyString, name |-> NoName])

\* scraper.py 248-333: get_collection_nfts on the first page. Without a client
\* it raises; a client that is none of Helius, Alchemy and Moralis gets the
\* empty answer of lines 318-322; an exception of the client is not caught.
GetCollectionNftsCall(c, cl, r) ==
    LET client == GetClientForChain(c, cl) IN
    IF client = NoClient \/ (client # "quicknode" /\ r.path = "raise")
    THEN ScoutResult(TRUE, 0, NoScoutResult.stats, NoScoutResult.ident)
    ELSE IF client = "quicknode"
    THEN NoScoutResult
    ELSE ScoutResult(FALSE,
                     GetCollectionNfts(HeliusFresh, c, NoCursor, PageSize(c), r).resp.n,
                     NoScoutResult.stats, NoScoutResult.ident)

\* scraper.py 153-238: get_wallet_nfts for one chain with an empty cache. a is
\* the client's answer: a.n owned NFTs, or an exception (a.raise), which
\* fetch_chain_nfts catches as it catches the missing client.
GetWalletNfts(c, cl, a) ==
    LET client == GetClientForChain(c, cl)
        normalized == IF client = NoClient \/ a.raise THEN 0 ELSE a.n
    IN ScoutResult(FALSE, normalized, NoScoutResult.stats, NoScoutResult.ident)

\* scraper.py 404-449: the answers that reach `results` with the clients cl:
\* the base task is created for a Helius (Alchemy) client only, the Moralis
\* task when there is a Moralis client.
TasksCreated(c, cl, in) ==
    [in EXCEPT
        !.helius = IF cl.helius THEN @ ELSE NoResults.helius,
        !.alchemy = IF cl.alchemy THEN @ ELSE NoResults.alchemy,
        !.moralis = IF cl.moralis THEN @ ELSE NoResults.moralis]

\* scraper.py 384-714 with the clients cl and an empty cache.
GetCollectionStatsCall(c, cl, in) ==
    ScoutResult(FALSE, 0, MergeStats(c, TasksCreated(c, cl, in)),
                MergeIdentity(c, TasksCreated(c, cl, in)))

WalletAnswers ==
    { [n |-> n, raise |-> FALSE] : n \in 0..EvmPageSize } \cup { [n |-> 0, raise |-> TRUE] }

ScoutMethods == {"get_collection_nfts", "get_wallet_nfts", "get_collection_stats"}

\* The provider's answer to the call of method m.
ScoutAnswers(m, c) ==
    IF m = "get_collection_nfts" THEN AnyResponses(c, PageSize(c), "scrape")
    ELSE IF m = "get_wallet_nfts" THEN WalletAnswers
    ELSE GatherInputs(c)

InitScout ==
    /\ WalkOver
    /\ stats_call = StatsIdle
    /\ ClientsIdle
    /\ ServicesIdle
    /\ \E m \in ScoutMethods, c \in {"solana", "ethereum"}, cl \in ClientSets :
         \E a \in ScoutAnswers(m, c) :
            scout_call = [phase |-> "input", method |-> m, chain |-> c,
                          clients |-> cl, answer |-> a, result |-> NoScoutResult]

CallGetCollectionNfts ==
    /\ scout_call.phase = "input"
    /\ scout_call.method = "get_collection_nfts"
    /\ scout_call' = [scout_call EXCEPT
                         !.phase = "returned",
                         !.result = GetCollectionNftsCall(scout_call.chain,
                                        scout_call.clients, scout_call.answer)]
    /\ UNCHANGED <<service_vars, walk_vars, stats_call, client_vars>>

CallGetWalletNfts ==
    /\ scout_call.phase = "input"
    /\ scout_call.method = "get_wallet_nfts"
    /\ scout_call' = [scout_call EXCEPT
                         !.phase = "returned",
                         !.result = GetWalletNfts(scout_call.chain,
                                        scout_call.clients, scout_call.answer)]
    /\ UNCHANGED <<service_vars, walk_vars, stats_call, client_vars>>

CallGetCollectionStats ==
    /\ scout_call.phase = "input"
    /\ scout_call.method = "get_collection_stats"
    /\ scout_call' = [scout_call EXCEPT
                         !.phase = "returned",
                         !.result = GetCollectionStatsCall(scout_call.chain,
                                        scout_call.clients, scout_call.answer)]
    /\ UNCHANGED <<service_vars, walk_vars, stats_call, client_vars>>

NextScout == CallGetCollectionNfts \/ CallGetWalletNfts \/ CallGetCollectionStats

SpecScout == InitScout /\ [][NextScout]_vars

\* ------------------------------------------------- the clients' requests
\* The API keys a client is configured with, at most.
MaxKeys == 2
\* base.py 59: stop_after_attempt(3).
StopAfterAttempt == 3

\* What the provider answers to one HTTP request: a status, or no answer
\* within the timeout (0).
Statuses == {0, 200, 400, 401, 404, 429, 500}
TimedOut(s) == s = 0
\* response.raise_for_status() raises for exactly these.
RaiseForStatus(s) == s >= 400
\* The body of a 200 answer: n items (a payload with n fields, for a
\* statistics endpoint) and whether it carries a cursor.
Bodies == [n : 0..EvmPageSize, cur : BOOLEAN]

AdapterClients == {"alchemy", "moralis", "helius", "reservoir", "magiceden"}

\* config.py 90-117: Alchemy, Moralis and Helius are built with at least one
\* key; reservoir.py 38: zero or one key; magiceden.py 31-32: always [].
KeyCounts(client) ==
    IF client \in {"alchemy", "moralis", "helius"} THEN 1..MaxKeys
    ELSE IF client = "reservoir" THEN 0..1
    ELSE {0}

\* Python's None for a key: the request carries no key of api_keys.
NoKey == None

\* base.py 38-43: get_api_key.
GetApiKey(a) == a.current_key_index % a.nkeys

\* base.py 45-47: rotate_api_key.
RotateApiKey(a) == (a.current_key_index + 1) % a.nkeys

\* What a client method hands to its caller: it raised, or it returned n items
\* and maybe a cursor. failed tells that the request function it called
\* raised.
MethodResult(failed, raised, n, cur) ==
    [failed |-> failed, raised |-> raised, n |-> n, cursor |-> cur]

NoMethodResult == MethodResult(FALSE, FALSE, 0, FALSE)

\* One request sent upstream.
Sent(a, endpoint, key, s) ==
    Append(a.attempts, [endpoint |-> endpoint, key |-> key, status |-> s])

\* alchemy.py 30-50 and 120-151: get_contract_nfts sends one GET with the
\* current key in the URL; any exception of _make_request is logged and raised
\* again.
AlchemyMakeRequest ==
    /\ adapter.phase = "running"
    /\ adapter.client = "alchemy"
    /\ \E s \in Statuses, b \in Bodies :
         adapter' = [adapter EXCEPT
             !.attempts = Sent(adapter, "getNFTsForCollection", GetApiKey(adapter), s),
             !.phase = "returned",
             !.result = IF TimedOut(s) \/ RaiseForStatus(s)
                        THEN MethodResult(TRUE, TRUE, 0, FALSE)
                        ELSE MethodResult(FALSE, FALSE, b.n, b.cur)]
    /\ UNCHANGED <<service_vars, walk_vars, stats_call, scout_call, limiter, workers, pager>>

\* moralis.py 39-57 and 135-165: get_contract_nfts sends one GET; a 429
\* rotates the key and sleeps, then raise_for_status raises; any exception
\* makes the method return {"nfts": [], "cursor": None}.
MoralisMakeRequest ==
    /\ adapter.phase = "running"
    /\ adapter.client = "moralis"
    /\ \E s \in Statuses, b \in Bodies :
         adapter' = [adapter EXCEPT
             !.attempts = Sent(adapter, "nft", GetApiKey(adapter), s),
             !.current_key_index = IF s = 429 THEN RotateApiKey(adapter) ELSE @,
             !.phase = "returned",
             !.result = IF TimedOut(s) \/ RaiseForStatus(s)
                        THEN MethodResult(TRUE, FALSE, 0, FALSE)
                        ELSE MethodResult(FALSE, FALSE, b.n, b.cur)]
    /\ UNCHANGED <<service_vars, walk_vars, stats_call, scout_call, limiter, workers, pager>>

\* helius.py 47-79 and 231-299: get_collection_nfts of a collection address
\* first sends the RPC getAssetsByGroup; any exception leads to the DAS
\* request. The items are taken to carry their metadata, so that
\* _enrich_nft_metadata (621-658) sends nothing.
HeliusMakeRpcRequest ==
    /\ adapter.phase = "running"
    /\ adapter.client = "helius"
    /\ adapter.stage = "rpc"
    /\ \E s \in Statuses, b \in Bodies :
         adapter' = [adapter EXCEPT
             !.attempts = Sent(adapter, "rpc getAssetsByGroup", GetApiKey(adapter), s),
             !.stage = IF TimedOut(s) \/ RaiseForStatus(s) THEN "das" ELSE @,
             !.phase = IF TimedOut(s) \/ RaiseForStatus(s) THEN @ ELSE "returned",
             !.result = IF TimedOut(s) \/ RaiseForStatus(s) THEN @
                        ELSE MethodResult(FALSE, FALSE, b.n, b.cur)]
    /\ UNCHANGED <<service_vars, walk_vars, stats_call, scout_call, limiter, workers, pager>>

\* helius.py 29-45, 300-312 and 596-603: the DAS request answers a 404 with
\* {"items": [], "page": None}; any other failure reaches the outer handler,
\* which returns the empty page.
HeliusMakeDasRequest ==
    /\ adapter.phase = "running"
    /\ adapter.client = "helius"
    /\ adapter.stage = "das"
    /\ \E s \in Statuses, b \in Bodies :
         adapter' = [adapter EXCEPT
             !.attempts = Sent(adapter, "das getAssetsByGroup", GetApiKey(adapter), s),
             !.phase = "returned",
             !.result = IF s = 404 THEN MethodResult(FALSE, FALSE, 0, FALSE)
                        ELSE IF TimedOut(s) \/ RaiseForStatus(s)
                        THEN MethodResult(TRUE, FALSE, 0, FALSE)
                        ELSE MethodResult(FALSE, FALSE, b.n, b.cur)]
    /\ UNCHANGED <<service_vars, walk_vars, stats_call, scout_call, limiter, workers, pager>>

\* base.py 58-104, one attempt of _request as ReservoirClient calls it
\* (reservoir.py 53-65 and 81-91). The key sent is self.api_key, whatever
\* current_key_index is. A 429 rotates the key, which divides by zero when
\* api_keys is empty: that exception is none that tenacity retries. Every
\* other failure is an aiohttp.ClientError or a timeout, and is retried until
\* StopAfterAttempt attempts were made. get_collection_stats returns {} for
\* any exception.
Request ==
    /\ adapter.phase = "running"
    /\ adapter.client = "reservoir"
    /\ \E s \in Statuses, b \in Bodies :
         LET failure == TimedOut(s) \/ RaiseForStatus(s)
             zero_division == s = 429 /\ adapter.nkeys = 0
             last == Len(adapter.attempts) + 1 >= StopAfterAttempt
             gives_up == failure /\ (zero_division \/ last)
         IN adapter' = [adapter EXCEPT
             !.attempts = Sent(adapter, "collections",
                               IF adapter.nkeys > 0 THEN 0 ELSE NoKey, s),
             !.current_key_index =
                 IF s = 429 /\ adapter.nkeys > 0 THEN RotateApiKey(adapter) ELSE @,
             !.phase = IF failure /\ ~gives_up THEN @ ELSE "returned",
             !.result = IF gives_up THEN MethodResult(TRUE, FALSE, 0, FALSE)
                        ELSE IF failure THEN @
                        ELSE MethodResult(FALSE, FALSE, b.n, FALSE)]
    /\ UNCHANGED <<service_vars, walk_vars, stats_call, scout_call, limiter, workers, pager>>

\* magiceden.py 39-77 and 79-96: get_collection_stats sends one request with
\* the client's own key; a 429 sleeps and raises; any exception makes the
\* method return {}.
MagicEdenMakeRequest ==
    /\ adapter.phase = "running"
    /\ adapter.client = "magiceden"
    /\ \E s \in Statuses, b \in Bodies :
         adapter' = [adapter EXCEPT
             !.attempts = Sent(adapter, "collections stats", NoKey, s),
             !.phase = "returned",
             !.result = IF TimedOut(s) \/ RaiseForStatus(s)
                        THEN MethodResult(TRUE, FALSE, 0, FALSE)
                        ELSE MethodResult(FALSE, FALSE, b.n, FALSE)]
    /\ UNCHANGED <<service_vars, walk_vars, stats_call, scout_call, limiter, workers, pager>>

\* A client, with the keys it was built with and the key index that earlier
\* rotations left, at the call of its method.
InitRequest ==
    /\ WalkOver
    /\ stats_call = StatsIdle
    /\ scout_call = ScoutIdle
    /\ ServicesIdle
    /\ limiter = LimiterIdle
    /\ workers = WorkersIdle
    /\ pager = PagerIdle
    /\ \E client \in AdapterClients :
         \E nkeys \in KeyCounts(client) :
            \E idx \in 0..(IF nkeys = 0 THEN 0 ELSE nkeys - 1) :
               adapter = [phase |-> "running", client |-> client, nkeys |-> nkeys,
                          current_key_index |-> idx, stage |-> "rpc",
                          attempts |-> <<>>, result |-> NoMethodResult]

NextRequest ==
    \/ AlchemyMakeRequest
    \/ MoralisMakeRequest
    \/ HeliusMakeRpcRequest
    \/ HeliusMakeDasRequest
    \/ Request
    \/ MagicEdenMakeRequest

SpecRequest == InitRequest /\ [][NextRequest]_vars

\* ------------------------------------------------------ the worker pool
\* config.py 59: max_workers (10 in the code).
MaxWorkers == 2
\* The NFTScout operations that run at the same time on the server's one
\* NFTScout (web_server.py 104), one per connection or per task of a gather.
Operations == 3

OperationIds == 1..Operations

\* fetch_chain_nfts of get_wallet_nfts, limited_task of get_collection_stats,
\* and get_collection_nfts.
OperationKinds == {"fetch_chain_nfts", "limited_task", "get_collection_nfts"}

\* The operations that hold a permit of _worker_semaphore.
Holding(ops) ==
    { o \in OperationIds : /\ ops[o].kind # "get_collection_nfts"
                           /\ ops[o].pc \in {"holding", "call"} }

\* The operations that wait for a provider's answer.
InFlight(ops) == { o \in OperationIds : ops[o].pc = "call" }

\* asyncio.Semaphore: the permits left.
Permits(ops) == MaxWorkers - Cardinality(Holding(ops))

\* scraper.py 171 and 457: `async with self._worker_semaphore`, entered when a
\* permit is left. limited_task awaits its client call at once (460).
AcquireWorker ==
    /\ workers.phase = "running"
    /\ Permits(workers.ops) > 0
    /\ \E o \in OperationIds :
         /\ workers.ops[o].kind # "get_collection_nfts"
         /\ workers.ops[o].pc = "start"
         /\ workers' = [workers EXCEPT
               !.ops[o].pc = IF workers.ops[o].kind = "limited_task"
                             THEN "call" ELSE "holding"]
    /\ UNCHANGED <<service_vars, walk_vars, stats_call, scout_call, adapter, limiter, pager>>

\* scraper.py 172-194: fetch_chain_nfts, the permit held, finds a client and
\* no cache entry and awaits client.get_wallet_nfts.
FetchChainNftsCall ==
    /\ workers.phase = "running"
    /\ \E o \in OperationIds :
         /\ workers.ops[o].kind = "fetch_chain_nfts"
         /\ workers.ops[o].pc = "holding"
         /\ workers' = [workers EXCEPT !.ops[o].pc = "call"]
    /\ UNCHANGED <<service_vars, walk_vars, stats_call, scout_call, adapter, limiter, pager>>

\* scraper.py 298-322: get_collection_nfts awaits the client's page fetch; it
\* does not enter _worker_semaphore.
GetCollectionNftsFetch ==
    /\ workers.phase = "running"
    /\ \E o \in OperationIds :
         /\ workers.ops[o].kind = "get_collection_nfts"
         /\ workers.ops[o].pc = "start"
         /\ workers' = [workers EXCEPT !.ops[o].pc = "call"]
    /\ UNCHANGED <<service_vars, walk_vars, stats_call, scout_call, adapter, limiter, pager>>

\* The provider call of an operation ends, with an answer or an exception.
\* scraper.py 197-207 and 461-465: fetch_chain_nfts and limited_task return in
\* both cases, which leaves the `async with`; 298-333: get_collection_nfts
\* returns or lets the exception through.
ClientCallEnds ==
    /\ workers.phase = "running"
    /\ \E o \in OperationIds, raised \in BOOLEAN :
         /\ workers.ops[o].pc = "call"
         /\ workers' = [workers EXCEPT !.ops[o].pc = "done",
                                       !.ops[o].raised = raised]
    /\ UNCHANGED <<service_vars, walk_vars, stats_call, scout_call, adapter, limiter, pager>>

InitWorkers ==
    /\ WalkOver
    /\ stats_call = StatsIdle
    /\ scout_call = ScoutIdle
    /\ ServicesIdle
    /\ adapter = AdapterIdle
    /\ limiter = LimiterIdle
    /\ pager = PagerIdle
    /\ \E kinds \in [OperationIds -> OperationKinds] :
         workers = [phase |-> "running",
                    ops |-> [o \in OperationIds |->
                               [kind |-> kinds[o], pc |-> "start", raised |-> FALSE]]]

NextWorkers ==
    \/ AcquireWorker
    \/ FetchChainNftsCall
    \/ GetCollectionNftsFetch
    \/ ClientCallEnds

SpecWorkers == InitWorkers /\ [][NextWorkers]_vars

\* ------------------------------------------------- _apply_rate_limit
\* The clock counts ticks; a second has this many.
TicksPerSecond == 2
\* The coroutines that call one client at about the same time.
Coroutines == 3
\* The ticks the clock advances while they do.
MaxTicks == 4

CoroutineIds == 1..Coroutines

\* The clients whose requests go through _apply_rate_limit, with the
\* rate_limit they are built with: ReservoirClient(rate_limit=2.0) through
\* _request (scraper.py 127, reservoir.py 42, base.py 73) and
\* MagicEdenClient(rate_limit=1.0) (scraper.py 116, magiceden.py 34 and 47).
PacedRateLimits == {1, 2}

\* base.py 36: _min_request_interval = 1.0 / rate_limit, in ticks.
MinRequestInterval(rate_limit) == TicksPerSecond \div rate_limit

\* base.py 34 and 51: the coroutines inside `async with
\* self._rate_limiter_semaphore` are those asleep; one that does not sleep
\* leaves the block in the step in which it entered it.
Asleep(l) == { c \in CoroutineIds : l.co[c].pc = "sleep" }

\* base.py 56 and 83: _last_request_time is set and the request is sent.
SendNow(l, c) ==
    [l EXCEPT !.last_request_time = l.now,
              !.co[c].pc = "sent",
              !.starts = Append(@, l.now)]

\* base.py 51-56: a coroutine enters the semaphore, reads the clock, and
\* either goes to sleep for the rest of the interval or sends at once.
ApplyRateLimit ==
    /\ limiter.phase = "running"
    /\ Cardinality(Asleep(limiter)) < limiter.rate_limit
    /\ \E c \in CoroutineIds :
         /\ limiter.co[c].pc = "idle"
         /\ LET time_since_last == limiter.now - limiter.last_request_time
                interval == MinRequestInterval(limiter.rate_limit)
            IN limiter' =
                 IF time_since_last < interval
                 THEN [limiter EXCEPT
                          !.co[c].pc = "sleep",
                          !.co[c].wake = limiter.now + (interval - time_since_last)]
                 ELSE SendNow(limiter, c)
    /\ UNCHANGED <<service_vars, walk_vars, stats_call, scout_call, adapter, workers, pager>>

\* base.py 55-56: asyncio.sleep is over; the coroutine sets
\* _last_request_time, leaves the semaphore and sends its request.
SleepEnds ==
    /\ limiter.phase = "running"
    /\ \E c \in Asleep(limiter) :
         /\ limiter.co[c].wake <= limiter.now
         /\ limiter' = SendNow(limiter, c)
    /\ UNCHANGED <<service_vars, walk_vars, stats_call, scout_call, adapter, workers, pager>>

\* Time passes, once every coroutine whose sleep is over has run.
Tick ==
    /\ limiter.phase = "running"
    /\ limiter.now < TicksPerSecond + MaxTicks
    /\ \A c \in Asleep(limiter) : limiter.co[c].wake > limiter.now
    /\ limiter' = [limiter EXCEPT !.now = @ + 1]
    /\ UNCHANGED <<service_vars, walk_vars, stats_call, scout_call, adapter, workers, pager>>

\* base.py 33-36: a new client, _last_request_time = 0, long after the epoch.
InitPacing ==
    /\ WalkOver
    /\ stats_call = StatsIdle
    /\ scout_call = ScoutIdle
    /\ ServicesIdle
    /\ adapter = AdapterIdle
    /\ workers = WorkersIdle
    /\ pager = PagerIdle
    /\ \E rate_limit \in PacedRateLimits :
         limiter = [phase |-> "running", rate_limit |-> rate_limit,
                    now |-> TicksPerSecond, last_request_time |-> 0,
                    co |-> [c \in CoroutineIds |-> [pc |-> "idle", wake |-> 0]],
                    starts |-> <<>>]

NextPacing == ApplyRateLimit \/ SleepEnds \/ Tick

SpecPacing == InitPacing /\ [][NextPacing]_vars

\* ------------------------------------------------ the requests of a walk
\* What scout.get_collection_nfts gives the loop for one page: n items, a
\* cursor or none, has_more, a last token id that can serve as a cursor, or
\* an exception.
PageAnswers(c) ==
    [n : 0..PageSize(c), cursor : BOOLEAN, has_more : BOOLEAN, tok : BOOLEAN,
     raise : {FALSE}]
    \cup { [n |-> 0, cursor |-> FALSE, has_more |-> FALSE, tok |-> FALSE, raise |-> TRUE] }

\* The loop does not wait for the answer: the request is left to run as a
\* task of its own.
NotAwaited(p) == p

\* web_server.py 880 and 1076: `await scout.get_collection_nfts(...)` suspends
\* the walk until the answer is there.
Awaited(p) == [p EXCEPT !.pc = "await"]

\* web_server.py 878-885 and 1059-1081: the loop condition holds and the
\* request for the next page is sent with the loop's cursor.
IssuePageRequest ==
    /\ pager.phase = "running"
    /\ pager.pc = "loop"
    /\ pager.page_count < (IF pager.loop = "count" THEN MaxCountPages(pager.chain)
                           ELSE MaxPages)
    /\ pager' = Awaited([pager EXCEPT
                    !.in_flight = @ \cup {[page |-> pager.sent + 1,
                                           cursor |-> pager.cursor]},
                    !.sent = @ + 1])
    /\ UNCHANGED <<service_vars, walk_vars, stats_call, scout_call, adapter, limiter, workers>>

\* The provider answers a request that is in flight, and the walk resumes.
ReceivePageResponse ==
    /\ pager.phase = "running"
    /\ pager.pc = "await"
    /\ \E r \in pager.in_flight, a \in PageAnswers(pager.chain) :
         pager' = [pager EXCEPT !.in_flight = @ \ {r},
                                !.answered = @ + 1,
                                !.response = a,
                                !.pc = "extract"]
    /\ UNCHANGED <<service_vars, walk_vars, stats_call, scout_call, adapter, limiter, workers>>

\* web_server.py 886-970 (count loop) and 1161-1457 (scrape loop): the rest of
\* the iteration, which takes the cursor of the next request from the answer
\* and decides whether the loop goes on. The scrape loop is taken without a
\* known total; the count loop is followed by the scrape loop, which starts
\* without a cursor and goes on with the count loop's page_count.
ExtractCursor ==
    /\ pager.phase = "running"
    /\ pager.pc = "extract"
    /\ LET a == pager.response
           counting == pager.loop = "count"
           pgc == IF a.raise THEN pager.page_count ELSE pager.page_count + 1
           cep == IF a.raise THEN pager.cep ELSE IF a.n = 0 THEN pager.cep + 1 ELSE 0
           cd == CountDecision(a.n, a.cursor, a.tok, cep, pgc, PageSize(pager.chain),
                               MaxCountPages(pager.chain), pager.cursor)
           sd == ScrapeDecision(pager.chain, None, 0, a, pager.cursor)
           count_ends == a.raise \/ cd.end # "" \/ pgc >= MaxCountPages(pager.chain)
           scrape_ends == a.raise \/ a.n = 0 \/ ~sd.cont \/ pgc >= MaxPages
       IN pager' =
            IF counting
            THEN IF count_ends
                 THEN [pager EXCEPT !.loop = "scrape", !.pc = "loop", !.cursor = NoCursor,
                                    !.page_count = pgc, !.cep = cep]
                 ELSE [pager EXCEPT !.pc = "loop", !.cursor = cd.cursor,
                                    !.page_count = pgc, !.cep = cep]
            ELSE IF scrape_ends
                 THEN [pager EXCEPT !.loop = "done", !.pc = "done"]
                 ELSE [pager EXCEPT !.pc = "loop", !.cursor = sd.cursor,
                                    !.page_count = pgc]
    /\ UNCHANGED <<service_vars, walk_vars, stats_call, scout_call, adapter, limiter, workers>>

\* web_server.py 867-877 and 1047-1059: a walk enters the count loop, or the
\* scrape loop at once, with no cursor and no page fetched.
InitPager ==
    /\ WalkOver
    /\ stats_call = StatsIdle
    /\ scout_call = ScoutIdle
    /\ ServicesIdle
    /\ adapter = AdapterIdle
    /\ limiter = LimiterIdle
    /\ workers = WorkersIdle
    /\ \E c \in {"solana", "ethereum"}, loop \in {"count", "scrape"} :
         pager = [phase |-> "running", chain |-> c, loop |-> loop, pc |-> "loop",
                  cursor |-> NoCursor, page_count |-> 0, cep |-> 0,
                  in_flight |-> {}, sent |-> 0, answered |-> 0,
                  response |-> [n |-> 0, cursor |-> FALSE, has_more |-> FALSE,
                                tok |-> FALSE, raise |-> FALSE]]

NextPager == IssuePageRequest \/ ReceivePageResponse \/ ExtractCursor

SpecPager == InitPager /\ [][NextPager]_vars

\* ------------------------------------- the HeliusClient of several walks
\* web_server.py 104: the server has one NFTScout, hence one HeliusClient,
\* for all its connections. A connection's handler runs in its own coroutine
\* and gives way to the others at every await.
\* The page calls a walk makes after its query for the total (the loops make
\* up to max_count_pages + max_pages of them).
WalkPageCalls == 1

\* Two connections.
ConnectionIds == {1, 2}

Collections == {"addrA", "addrB"}

ConnectionKinds == {"scrape_collection", "get_collection_info"}

\* No call has stored the client's totals.
NoOwner == [conn |-> 0, addr |-> "unset"]

Owner(c, collection_address) == [conn |-> c, addr |-> collection_address]

\* The provider's raw answers to a Solana page request: an empty page, a
\* page of one item, or a full page whose "total" field is absent or large.
SharedAnswers ==
    { r \in AnyResponses("solana", SolPageSize, "scrape") :
         /\ r.fresh /\ r.tok
         /\ r.n \in {0, 1, SolPageSize}
         /\ r.total \in (IF r.n = SolPageSize THEN {0, BigTotal} ELSE {0})
         /\ r.path = "das" => ~r.cur }

NoAnswer == Raw(0, FALSE, 0, "none", TRUE, TRUE)

NoDict == [n |-> 0, cursor |-> FALSE, totalCount |-> 0, total |-> None,
           haskey |-> FALSE, has_more |-> FALSE]

\* What the call that just finished returned: the total of the
\* CollectionNFTResponse, the call that stored the value it was taken from,
\* the collection the call was for, and the page's items and cursor.
NoReturn == [total |-> None, by |-> NoOwner, address |-> "unset", call |-> "none",
             n |-> 0, cursor |-> FALSE]

\* The other connections' requests are over.
OthersDone(sh, c) == \A o \in ConnectionIds \ {c} : sh.conn[o].pc = "done"

\* web_server.py 602-606 and 670-674: the address the walk goes on with is
\* the client's _current_collection when that is set.
ResolvedAddress(h, address) == IF h.current # "unset" THEN h.current ELSE address

\* scraper.py 356-369: where the total of the CollectionNFTResponse comes
\* from: the dict's "total" (stored by d_by), the dict's "totalCount" (the
\* page of this call), or the client's fields as they are now.
ScoutTotalOwner(h, by, d, d_by, own) ==
    IF Truthy(d.total) THEN d_by
    ELSE IF Truthy(d.totalCount) THEN own
    ELSE IF Truthy(h.ltotal) \/ Truthy(h.ctotal) THEN by
    ELSE NoOwner

\* web_server.py 587-606: a scrape_collection request starts its walk.
StartWalk ==
    /\ shared.phase = "running"
    /\ \E c \in ConnectionIds :
         /\ shared.conn[c].pc = "new"
         /\ shared.conn[c].kind = "scrape_collection"
         /\ shared' = [shared EXCEPT
                !.conn[c].address = ResolvedAddress(shared.h, shared.conn[c].requested),
                !.conn[c].after = OthersDone(shared, c),
                !.conn[c].pc = "reset"]
    /\ UNCHANGED <<walk_vars, stats_call, scout_call, client_vars, storage_vars>>

\* web_server.py 644-651: the walk clears the client's fields before its
\* query for the total, then awaits the cache.
ResetClient ==
    /\ shared.phase = "running"
    /\ \E c \in ConnectionIds :
         /\ shared.conn[c].pc = "reset"
         /\ shared' = [shared EXCEPT
                !.h = HeliusFresh,
                !.by = NoOwner,
                !.conn[c].pc = "call"]
    /\ UNCHANGED <<walk_vars, stats_call, scout_call, client_vars, storage_vars>>

\* web_server.py 1503-1580: a get_collection_info request; it leaves the
\* client's fields as they are.
StartInfo ==
    /\ shared.phase = "running"
    /\ \E c \in ConnectionIds :
         /\ shared.conn[c].pc = "new"
         /\ shared.conn[c].kind = "get_collection_info"
         /\ shared' = [shared EXCEPT !.conn[c].after = OthersDone(shared, c),
                                      !.conn[c].pc = "call"]
    /\ UNCHANGED <<walk_vars, stats_call, scout_call, client_vars, storage_vars>>

\* helius.py 212-241: the call resets the fields for another collection and
\* awaits the RPC request.
HeliusEnter ==
    /\ shared.phase = "running"
    /\ \E c \in ConnectionIds :
         LET w == shared.conn[c]
             h1 == HeliusResetFor(shared.h, w.address)
         IN /\ w.pc = "call"
            /\ shared' = [shared EXCEPT
                   !.h = h1,
                   !.by = IF h1 # shared.h THEN NoOwner ELSE @,
                   !.conn[c].last = NoReturn,
                   !.conn[c].pc = "rpc"]
    /\ UNCHANGED <<walk_vars, stats_call, scout_call, client_vars, storage_vars>>

\* helius.py 241-309 and 555-594: the RPC request is answered; the call
\* stores and reads the totals, or awaits the DAS request.
HeliusRpcAnswers ==
    /\ shared.phase = "running"
    /\ \E c \in ConnectionIds :
         /\ shared.conn[c].pc = "rpc"
         /\ \E w \in {shared.conn[c]} :
            \E r \in SharedAnswers :
               IF r.path = "rpc"
               THEN \E g \in {HeliusAfterReset(shared.h,
                                   IF w.cursor THEN "cur" ELSE NoCursor,
                                   SolPageSize, r)} :
                      \E by \in {IF g.h # shared.h THEN Owner(c, w.address)
                                 ELSE shared.by} :
                        shared' = [shared EXCEPT
                           !.h = g.h,
                           !.by = by,
                           !.conn[c] = [w EXCEPT
                               !.d = g.d,
                               !.d_by = IF Truthy(g.d.total) THEN by ELSE NoOwner,
                               !.pc = "cache"]]
               ELSE shared' = [shared EXCEPT
                           !.conn[c] = [w EXCEPT !.r = r, !.pc = "das"]]
    /\ UNCHANGED <<walk_vars, stats_call, scout_call, client_vars, storage_vars>>

\* helius.py 309-312 and 555-603: the DAS request is answered or fails.
HeliusDasAnswers ==
    /\ shared.phase = "running"
    /\ \E c \in ConnectionIds :
         LET w == shared.conn[c] IN
         /\ w.pc = "das"
         /\ \E g \in {HeliusAfterReset(shared.h, IF w.cursor THEN "cur" ELSE NoCursor,
                                       SolPageSize, w.r)} :
              shared' = [shared EXCEPT
                 !.conn[c].r = NoAnswer,
                 !.conn[c].d = g.d,
                 !.conn[c].d_by = IF Truthy(g.d.total) THEN shared.by ELSE NoOwner,
                 !.conn[c].pc = "cache"]
    /\ UNCHANGED <<walk_vars, stats_call, scout_call, client_vars, storage_vars>>

\* scraper.py 331-382 after `await self.storage.set_cache`, and the caller's
\* next lines up to its next await: web_server.py 670-674 after the walk's
\* query for the total, 1588-1606 in get_collection_info (a second call when
\* the first gave no total), the next page call of a loop while the answer
\* carries a cursor.
ScoutReturns ==
    /\ shared.phase = "running"
    /\ \E c \in ConnectionIds :
         /\ shared.conn[c].pc = "cache"
         /\ \E w \in {shared.conn[c]} :
            \E resp \in {ScoutResponse(shared.h, "solana", w.d, SolPageSize)} :
            \E again \in {IF w.kind = "get_collection_info"
                          THEN w.calls = 0 /\ ~Truthy(resp.total)
                          ELSE w.call = "info"
                               \/ (resp.cursor /\ w.calls < WalkPageCalls)} :
              shared' = [shared EXCEPT
                 !.conn[c] =
                    [w EXCEPT
                       !.last = [total |-> resp.total,
                                 by |-> ScoutTotalOwner(shared.h, shared.by, w.d,
                                                        w.d_by, Owner(c, w.address)),
                                 address |-> w.address,
                                 call |-> w.call,
                                 n |-> resp.n,
                                 cursor |-> resp.cursor],
                       !.d = NoDict,
                       !.d_by = NoOwner,
                       !.calls = @ + 1,
                       !.address = IF w.kind = "scrape_collection" /\ w.call = "info"
                                   THEN ResolvedAddress(shared.h, @) ELSE @,
                       !.call = IF w.kind = "scrape_collection" THEN "page" ELSE @,
                       !.cursor = IF w.kind = "scrape_collection" /\ w.call = "page"
                                  THEN resp.cursor ELSE FALSE,
                       !.pc = IF again THEN "call" ELSE "done"]]
    /\ UNCHANGED <<walk_vars, stats_call, scout_call, client_vars, storage_vars>>

\* Requests of the connections of a server that has just started, for the
\* same collection or for different ones. `after` tells that a request
\* started when the other connections' requests were over.
InitShared ==
    /\ WalkOver
    /\ stats_call = StatsIdle
    /\ scout_call = ScoutIdle
    /\ ClientsIdle
    /\ StorageIdle
    /\ \E kinds \in [ConnectionIds -> ConnectionKinds] :
         \E req \in { q \in [ConnectionIds -> Collections] : q[1] = "addrA" } :
            shared = [phase |-> "running",
                      h |-> HeliusFresh,
                      by |-> NoOwner,
                      conn |-> [c \in ConnectionIds |->
                                  [kind |-> kinds[c], requested |-> req[c],
                                   address |-> req[c], pc |-> "new",
                                   after |-> FALSE,
                                   call |-> "info", cursor |-> FALSE, calls |-> 0,
                                   r |-> NoAnswer, d |-> NoDict, d_by |-> NoOwner,
                                   last |-> NoReturn]]]

NextShared ==
    \/ StartWalk
    \/ ResetClient
    \/ StartInfo
    \/ HeliusEnter
    \/ HeliusRpcAnswers
    \/ HeliusDasAnswers
    \/ ScoutReturns

SpecShared == InitShared /\ [][NextShared]_vars

\* ------------------------------------------------ the cache of the pages
\* storage/memory.py: the cache of MemoryStorage as a function from keys to
\* values; NoCache is a key that is absent or expired. The keys are those of
\* one address and chain: "collection:..." and "collection_stats:...".
CollectionKey == "collection"
CollectionStatsKey == "collection_stats"

CacheKeys == {CollectionKey, CollectionStatsKey}

\* A cached list is known by the number of its items.
CachedLists == {NoCache, 1, EvmPageSize}

MemoryStores == [CacheKeys -> CachedLists]

\* memory.py 25-28.
GetCache(store, key) == store[key]

\* memory.py 30-39.
SetCache(store, key, value) == [store EXCEPT ![key] = value]

\* memory.py 41-44.
DeleteCache(store, key) == [store EXCEPT ![key] = NoCache]

\* The response lines 285-292 of scraper.py would build from a cached list.
CachedResponse(cached) ==
    [n |-> cached, total_count |-> cached, total |-> None,
     cursor |-> FALSE, has_more |-> FALSE]

\* A get_collection_nfts that answers a first request from the cache when
\* there is an entry.
ServedPageCacheFirst(store, cache_key, cur, fetched) ==
    IF cur = NoCursor /\ Truthy(GetCache(store, cache_key))
    THEN CachedResponse(GetCache(store, cache_key))
    ELSE fetched

\* scraper.py 252-297: `cached = None`; both lookups are commented out and
\* the response is built from the fetch alone.
ServedPage(store, cache_key, cur, fetched) == fetched

\* scraper.py 240-382 on the cache `store`: an exception of the client
\* leaves before the write of line 332.
GetCollectionNftsOnStore(store, h, c, cur, page_size, r) ==
    IF r.path = "raise"
    THEN [raised |-> TRUE, store |-> store, h |-> h, resp |-> NoResponse]
    ELSE LET g == GetCollectionNfts(h, c, cur, page_size, r) IN
         [raised |-> FALSE,
          store |-> SetCache(store, CollectionKey, g.resp.n),
          h |-> g.h,
          resp |-> ServedPage(store, CollectionKey, cur, g.resp)]

\* The Helius client before the call: new, or holding a total.
HeliusStates ==
    { HeliusFresh,
      [current |-> contract_address, ctotal |-> BigTotal, ltotal |-> BigTotal] }

PageRuns == {1, 2}

NoPageResult == [raised |-> FALSE, resp |-> NoResponse]

\* One run of the call on its cache.
CallOnStore ==
    /\ page_call.phase = "running"
    /\ \E i \in PageRuns :
         /\ ~page_call.run[i].done
         /\ \E g \in {GetCollectionNftsOnStore(page_call.run[i].store, page_call.h,
                                              page_call.chain, page_call.cursor,
                                              PageSize(page_call.chain), page_call.r)} :
              page_call' = [page_call EXCEPT
                 !.run[i] = [done |-> TRUE, before |-> @.store, store |-> g.store,
                             result |-> [raised |-> g.raised, resp |-> g.resp]]]
    /\ UNCHANGED <<walk_vars, stats_call, scout_call, client_vars, shared, redis_call, wallet_call, webhook>>

\* The same request with the same provider answer and client state, on two
\* contents of the cache.
InitPages ==
    /\ WalkOver
    /\ stats_call = StatsIdle
    /\ scout_call = ScoutIdle
    /\ ClientsIdle
    /\ shared = SharedIdle
    /\ redis_call = RedisIdle
    /\ wallet_call = WalletIdle
    /\ webhook = WebhookIdle
    /\ \E c \in {"solana", "ethereum"} :
         \E cur \in {NoCursor, "cur"} :
            \E r \in AnyResponses(c, PageSize(c), "scrape") :
               \E h \in (IF c = "solana" THEN HeliusStates ELSE {HeliusFresh}) :
                  \E stores \in [PageRuns -> MemoryStores] :
                     page_call = [phase |-> "running", chain |-> c, cursor |-> cur,
                                  r |-> r, h |-> h,
                                  run |-> [i \in PageRuns |->
                                             [done |-> FALSE, before |-> stores[i],
                                              store |-> stores[i],
                                              result |-> NoPageResult]]]

NextPages == CallOnStore

SpecPages == InitPages /\ [][NextPages]_vars

\* ------------------------------------------------------- RedisStorage
\* storage/redis_adapter.py. The Redis server is outside the program: a
\* connection attempt or a command may succeed or raise.
MaxRedisCalls == 3

RedisMethods == {"get_cache", "set_cache", "delete_cache"}

\* redis_adapter.py 1-15: the names the module binds are json, Any,
\* Optional, redis, REDIS_AVAILABLE, StorageAdapter and Config; it binds no
\* `logger`.
ModuleNames ==
    {"json", "Any", "Optional", "redis", "REDIS_AVAILABLE", "StorageAdapter", "Config"}

\* Evaluating a name the module does not bind raises NameError.
NameError(name) == name \notin ModuleNames

NoOutcome == [raised |-> "none", value |-> None, failed |-> FALSE]

\* A call of get_cache, set_cache or delete_cache begins.
RedisCallBegins ==
    /\ redis_call.phase = "running"
    /\ redis_call.pc = "idle"
    /\ redis_call.calls < MaxRedisCalls
    /\ \E m \in RedisMethods :
         \E v \in CachedLists \ {NoCache} :
            redis_call' = [redis_call EXCEPT !.pc = "ensure", !.method = m,
                                             !.arg = v, !.outcome = NoOutcome,
                                             !.calls = @ + 1]
    /\ UNCHANGED <<walk_vars, stats_call, scout_call, client_vars, shared, page_call, wallet_call, webhook>>

\* redis_adapter.py 27-38: _ensure_connected; redis.from_url answers or raises.
EnsureConnected ==
    /\ redis_call.phase = "running"
    /\ redis_call.pc = "ensure"
    /\ IF redis_call.initialized
       THEN redis_call' = [redis_call EXCEPT !.pc = "command"]
       ELSE \E ok \in BOOLEAN :
               redis_call' = [redis_call EXCEPT
                                 !.initialized = ok,
                                 !.pc = IF ok THEN "command" ELSE "except"]
    /\ UNCHANGED <<walk_vars, stats_call, scout_call, client_vars, shared, page_call, wallet_call, webhook>>

\* redis_adapter.py 44-47, 57-58, 67: the command on the server answers or
\* raises (the server is unreachable, the connection is lost).
RedisCommand ==
    /\ redis_call.phase = "running"
    /\ redis_call.pc = "command"
    /\ \E ok \in BOOLEAN :
         IF ~ok
         THEN redis_call' = [redis_call EXCEPT !.pc = "except"]
         ELSE redis_call' = [redis_call EXCEPT
                 !.pc = "idle",
                 !.server = IF redis_call.method = "set_cache" THEN redis_call.arg
                            ELSE IF redis_call.method = "delete_cache" THEN NoCache
                            ELSE @,
                 !.outcome = [raised |-> "none",
                              value |-> IF redis_call.method = "get_cache"
                                           /\ Truthy(redis_call.server)
                                        THEN redis_call.server ELSE None,
                              failed |-> FALSE]]
    /\ UNCHANGED <<walk_vars, stats_call, scout_call, client_vars, shared, page_call, wallet_call, webhook>>

\* redis_adapter.py 48-51, 59-61, 68-70: the except clause evaluates
\* `logger.debug(...)` before it returns.
RedisExcept ==
    /\ redis_call.phase = "running"
    /\ redis_call.pc = "except"
    /\ redis_call' = [redis_call EXCEPT
          !.pc = "idle",
          !.outcome = [raised |-> IF NameError("logger") THEN "NameError" ELSE "none",
                       value |-> None,
                       failed |-> TRUE]]
    /\ UNCHANGED <<walk_vars, stats_call, scout_call, client_vars, shared, page_call, wallet_call, webhook>>

\* redis_adapter.py 20-25: a new RedisStorage, on a server that holds a value
\* under the key or none.
InitRedis ==
    /\ WalkOver
    /\ stats_call = StatsIdle
    /\ scout_call = ScoutIdle
    /\ ClientsIdle
    /\ shared = SharedIdle
    /\ page_call = PageCallIdle
    /\ wallet_call = WalletIdle
    /\ webhook = WebhookIdle
    /\ \E v \in CachedLists :
         redis_call = [phase |-> "running", initialized |-> FALSE, server |-> v,
                       pc |-> "idle", method |-> "none", arg |-> None,
                       outcome |-> NoOutcome, calls |-> 0]

NextRedis == RedisCallBegins \/ EnsureConnected \/ RedisCommand \/ RedisExcept

SpecRedis == InitRedis /\ [][NextRedis]_vars

\* --------------------------------------------- the cache of the wallets
\* scraper.py 153-238 for one wallet on one chain, on the cache.
MaxWalletCalls == 4

\* The entry under wallet:{wallet_address}:{chain.value}: the number of
\* items of the cached list (0: no entry, or expired) and the cursor of the
\* request whose fetch produced the list.
NoWalletEntry == [n |-> 0, of_cursor |-> "unset"]

\* The client's answers: n owned NFTs with or without a cursor for the next
\* page, or an exception.
WalletPageAnswers ==
    [n : 0..EvmPageSize, page : BOOLEAN, raise : {FALSE}]
        \cup { [n |-> 0, page |-> FALSE, raise |-> TRUE] }

NoWalletResult ==
    [request |-> "unset", hit |-> FALSE, n |-> 0, of_cursor |-> "unset",
     cursor |-> FALSE, has_more |-> FALSE]

\* scraper.py 170-207: fetch_chain_nfts; the key of line 179 has the wallet
\* and the chain in it and nothing else.
FetchChainNfts(entry, cur, a) ==
    IF entry.n > 0
    THEN [n |-> entry.n, of_cursor |-> entry.of_cursor, hit |-> TRUE,
          response |-> FALSE, page |-> FALSE]
    ELSE IF a.raise
    THEN [n |-> 0, of_cursor |-> cur, hit |-> FALSE, response |-> FALSE, page |-> FALSE]
    ELSE [n |-> a.n, of_cursor |-> cur, hit |-> FALSE, response |-> TRUE,
          page |-> a.page]

\* scraper.py 153-238: one call with the request cursor `cur`.
GetWalletNftsOnStore ==
    /\ wallet_call.phase = "running"
    /\ wallet_call.calls < MaxWalletCalls
    /\ \E cur \in {NoCursor, "cur"} :
         \E a \in WalletPageAnswers :
            \E f \in {FetchChainNfts(wallet_call.entry, cur, a)} :
               wallet_call' = [wallet_call EXCEPT
                  !.calls = @ + 1,
                  !.entry = IF f.n > 0 THEN [n |-> f.n, of_cursor |-> f.of_cursor]
                            ELSE @,
                  !.last = [request |-> cur, hit |-> f.hit, n |-> f.n,
                            of_cursor |-> f.of_cursor,
                            cursor |-> (f.response /\ f.page),
                            has_more |-> (f.response /\ f.page)]]
    /\ UNCHANGED <<walk_vars, stats_call, scout_call, client_vars, shared, page_call, redis_call, webhook>>

\* memory.py 19-22: the entry's TTL (cache_ttl) runs out.
WalletEntryExpires ==
    /\ wallet_call.phase = "running"
    /\ wallet_call.entry # NoWalletEntry
    /\ wallet_call' = [wallet_call EXCEPT !.entry = NoWalletEntry]
    /\ UNCHANGED <<walk_vars, stats_call, scout_call, client_vars, shared, page_call, redis_call, webhook>>

InitWallet ==
    /\ WalkOver
    /\ stats_call = StatsIdle
    /\ scout_call = ScoutIdle
    /\ ClientsIdle
    /\ shared = SharedIdle
    /\ page_call = PageCallIdle
    /\ redis_call = RedisIdle
    /\ webhook = WebhookIdle
    /\ wallet_call = [phase |-> "running", entry |-> NoWalletEntry, calls |-> 0,
                      last |-> NoWalletResult]

NextWallet == GetWalletNftsOnStore \/ WalletEntryExpires

SpecWallet == InitWallet /\ [][NextWallet]_vars

\* ------------------------------------------------- the webhook application
\* webhooks/app.py: the three POST handlers share rate_limit_store and
\* webhook_events, and differ in the name of the signature header and in the
\* "source" of the event only; one pair of actions stands for the three. An
\* event is kept as its "ip". time.time() is a clock that does not go back,
\* read in whole ticks; two requests may read the same tick.

\* RATE_LIMIT_WINDOW (app.py 41: 60 seconds), in ticks.
RateLimitWindow == 2

\* MAX_EVENTS_PER_IP (app.py 40: WEBHOOK_RATE_LIMIT, 100 by default), scaled.
MaxEventsPerIp == 1

\* MAX_EVENTS (app.py 39: WEBHOOK_MAX_EVENTS, 10000 by default), scaled.
MaxEvents == 1

\* The last tick of the clock.
MaxClock == 3

\* get_client_ip (app.py 47-52): the addresses the requests come from.
Ips == {"ipA", "ipB"}

NoRequest == [ip |-> "none", allowed |-> FALSE]

\* app.py 62-63: timestamps older than the window leave the deque from the
\* left, until the leftmost one is within the window.
RECURSIVE PopOld(_, _)
PopOld(q, now) ==
    IF q # <<>> /\ Head(q) < now - RateLimitWindow
    THEN PopOld(Tail(q), now)
    ELSE q

\* check_rate_limit, but the timestamp at exactly now - RATE_LIMIT_WINDOW
\* leaves the deque too.
CheckRateLimitPopsEdge(q, now) ==
    LET p == PopOld(q, now + 1)
    IN IF Len(p) >= MaxEventsPerIp
       THEN [allowed |-> FALSE, q |-> p]
       ELSE [allowed |-> TRUE, q |-> Append(p, now)]

\* app.py 55-71, check_rate_limit on the deque of one ip (an ip not yet in
\* rate_limit_store gets an empty deque, 58-59): the old timestamps are
\* removed, then a full deque refuses, and any other gets the timestamp.
CheckRateLimit(q, now) ==
    LET p == PopOld(q, now)
    IN IF Len(p) >= MaxEventsPerIp
       THEN [allowed |-> FALSE, q |-> p]
       ELSE [allowed |-> TRUE, q |-> Append(p, now)]

\* app.py 44 and 150: webhook_events is deque(maxlen=MAX_EVENTS); an append
\* to a full deque discards the item at the other end.
AppendEvent(events, event) ==
    LET a == Append(events, event)
    IN IF Len(a) > MaxEvents THEN Tail(a) ELSE a

\* time.time() (app.py 57) advances.
ClockTicks ==
    /\ webhook.phase = "running"
    /\ webhook.now < MaxClock
    /\ webhook' = [webhook EXCEPT !.now = @ + 1]
    /\ UNCHANGED <<walk_vars, stats_call, scout_call, client_vars, shared,
                   page_call, redis_call, wallet_call>>

\* app.py 119-124 (and 167-172, 215-220): a handler up to its first await.
\* A request that check_rate_limit refuses is answered 429; the others go on
\* to read their body.
WebhookReceived ==
    /\ webhook.phase = "running"
    /\ \E ip \in Ips :
         /\ \E r \in {CheckRateLimit(webhook.rate_limit_store[ip], webhook.now)} :
              webhook' = [webhook EXCEPT
                  !.rate_limit_store[ip] = r.q,
                  !.accepted[ip] = IF r.allowed THEN Append(@, webhook.now) ELSE @,
                  !.in_flight[ip] = IF r.allowed THEN @ + 1 ELSE @,
                  !.last = [ip |-> ip, allowed |-> r.allowed]]
    /\ UNCHANGED <<walk_vars, stats_call, scout_call, client_vars, shared,
                   page_call, redis_call, wallet_call>>

\* app.py 126-161 (and 174-209, 222-257): the rest of a handler. A body that
\* is no JSON ends in 400, a missing or wrong signature in 401, and only the
\* request that passes both is appended to webhook_events.
WebhookProcessed ==
    /\ webhook.phase = "running"
    /\ \E ip \in Ips :
         /\ webhook.in_flight[ip] > 0
         /\ \E status \in {200, 400, 401} :
              webhook' = [webhook EXCEPT
                !.in_flight[ip] = @ - 1,
                !.webhook_events = IF status = 200
                                   THEN AppendEvent(@, [ip |-> ip])
                                   ELSE @,
                !.evicted = @ \/ (status = 200 /\ Len(webhook.webhook_events) >= MaxEvents)]
    /\ UNCHANGED <<walk_vars, stats_call, scout_call, client_vars, shared,
                   page_call, redis_call, wallet_call>>

\* The application after import (app.py 38 and 44): no timestamps, no events.
InitWebhook ==
    /\ WalkOver
    /\ stats_call = StatsIdle
    /\ scout_call = ScoutIdle
    /\ ClientsIdle
    /\ shared = SharedIdle
    /\ page_call = PageCallIdle
    /\ redis_call = RedisIdle
    /\ wallet_call = WalletIdle
    /\ webhook = [phase |-> "running", now |-> 0,
                  rate_limit_store |-> [ip \in Ips |-> <<>>],
                  webhook_events |-> <<>>,
                  in_flight |-> [ip \in Ips |-> 0],
                  accepted |-> [ip \in Ips |-> <<>>],
                  last |-> NoRequest,
                  evicted |-> FALSE]

NextWebhook == ClockTicks \/ WebhookReceived \/ WebhookProcessed

SpecWebhook == InitWebhook /\ [][NextWebhook]_vars

\* ---------------------------------------------------------------- claims
\* The trust in collection_total that its origin gives: 0 unknown,
\* 1 estimate (a value a provider or the statistics reported, or the count of
\* a walk that was cut short), 2 exact (the items of a walk to its natural end).
Confidence(origin) ==
    IF origin = "none" THEN 0
    ELSE IF origin \in {"enumerated", "counted"} THEN 2
    ELSE 1

\* C1 (full-page continuation): against a provider that answers page_size,
\* page_size and page_size - 1 items without cursor, and with no total from
\* the statistics, each pagination loop of a finished walk that ran made
\* exactly 3 requests and the total reported is 2 * page_size + (page_size - 1).
C1_FullPageContinuation ==
    (pc = "done" /\ provider.mode = "fullpage" /\ provider.stats_total = None) =>
        /\ fetches.scrape = 3
        /\ fetches.count \in {0, 3}
        /\ complete.collection_total = 3 * PageSize(chain) - 1

\* C2 (exact total): for a collection of K < page_size items, and with no
\* total from the statistics, each pagination loop of a finished walk that ran
\* made exactly one request and the total reported is K, obtained by
\* enumeration.
C2_ExactTotal ==
    (pc = "done" /\ provider.mode = "small" /\ provider.stats_total = None) =>
        /\ fetches.scrape = 1
        /\ fetches.count \in {0, 1}
        /\ complete.collection_total = provider.k
        /\ Confidence(total_origin) = 2

\* C3 (safety valve): against a provider that always answers a full page with
\* a cursor, and with no total from the statistics, the loops stop within
\* their page ceilings and the finished walk reports no total: what was seen
\* before the ceiling is not the total.
C3_SafetyValve ==
    (provider.mode = "infinite" /\ provider.stats_total = None) =>
        /\ fetches.count <= MaxCountPages(chain)
        /\ fetches.scrape <= MaxPages
        /\ (pc = "done" => complete.collection_total = None)

\* C4 (confidence monotonicity): within a walk the confidence of
\* collection_total never decreases, a total that is exact is never replaced
\* and a known total never becomes unknown.
C4_ConfidenceMonotone ==
    [][/\ Confidence(total_origin') >= Confidence(total_origin)
       /\ (Confidence(total_origin) = 2 => collection_total' = collection_total)
       /\ (collection_total # None => collection_total' # None)]_vars

\* C5 (idempotent deduplication): a second walk against the same provider
\* answers ends with the set of emitted pairs and the count of the first walk.
C5_SecondWalkSame ==
    (session.run = 2 /\ pc = "done") =>
        /\ Emitted(nft_msgs) = session.first.emitted
        /\ total_scraped = session.first.count

\* A second walk is over whose provider delivered its first page twice and
\* which emitted items.
C5_SecondWalkOverlapDone ==
    /\ session.run = 2
    /\ pc = "done"
    /\ provider.mode = "overlap"
    /\ fetches.scrape >= 3
    /\ total_scraped > 0

\* C6 (duplicate suppression): no (token_id, contract_address) pair is sent in
\* two "nft" messages and total_scraped is the number of pairs in seen_nfts.
C6_NoPairEmittedTwice ==
    /\ \A i, j \in DOMAIN nft_msgs : i # j => nft_msgs[i].nft # nft_msgs[j].nft
    /\ total_scraped = Cardinality(seen_nfts)

\* A page whose pairs were all seen before has been delivered and nothing of
\* it was emitted.
C6_DuplicatePageDelivered ==
    /\ provider.mode = "overlap"
    /\ fetches.scrape = 2
    /\ total_scraped = PageSize(chain)
    /\ Len(nft_msgs) = PageSize(chain)

\* The record of the marketplace source of the call's chain (Magic Eden on
\* Solana, Reservoir on EVM) and whether the source and the base answered.
MarketplaceStats ==
    IF stats_call.chain = "solana"
    THEN NormalizeMagicEdenCollection(stats_call.in.magiceden)
    ELSE NormalizeReservoirCollection(stats_call.in.reservoir)

MarketplaceAndBaseAnswered ==
    IF stats_call.chain = "solana"
    THEN stats_call.in.magiceden.ok /\ stats_call.in.helius.ok
    ELSE stats_call.in.reservoir.ok /\ stats_call.in.alchemy.ok

\* C7 (reconciliation priority): when the base and the marketplace source
\* both answered, the record returned carries the marketplace's value of
\* floor price, volume, sales, owners and total supply wherever that value
\* is not empty.
C7_MarketplaceWins ==
    (stats_call.phase = "returned" /\ MarketplaceAndBaseAnswered) =>
        \A f \in {"floor_price", "total_volume", "sales_24h", "total_owners",
                  "total_supply"} :
            Truthy(MarketplaceStats[f]) => stats_call.out[f] = MarketplaceStats[f]

\* C8 (derived fields): in every record returned, market_cap is floor_price *
\* total_supply when both are known and owners_percentage is
\* 100 * total_owners / total_supply when both are known.
C8_DerivedRecomputed ==
    stats_call.phase = "returned" =>
        LET r == stats_call.out IN
        /\ (Truthy(r.floor_price) /\ Truthy(r.total_supply))
              => r.market_cap = r.floor_price * r.total_supply
        /\ (Truthy(r.total_owners) /\ Truthy(r.total_supply))
              => r.owners_percentage * r.total_supply = 100 * r.total_owners

\* C9 (first-page inference): when the first request of a walk, the info
\* query without cursor, is answered with a next-page cursor, nothing is
\* stored or returned as the collection's total: the Helius fields, the
\* response's total and collection_total stay unknown.
C9_FirstPageCursorKeepsUnknown ==
    (pc = "stats" /\ fetches.info = 1 /\ response.cursor) =>
        /\ helius.ctotal = None
        /\ helius.ltotal = None
        /\ response.total = None
        /\ collection_total = None

\* The cursor of the request that the next iteration of a loop sends.
RequestCursor == IF pc = "count" THEN current_cursor ELSE cursor

\* C10 (later-page inference): an iteration whose request carries a cursor
\* leaves an unknown total unknown, in the Helius client and in the walk,
\* unless the walk reaches its natural end with it.
C10_LaterPageKeepsUnknown ==
    [][(pc \in {"count", "scrape"} /\ RequestCursor # NoCursor) =>
          /\ (helius.ctotal = None => helius'.ctotal = None)
          /\ (collection_total = None /\ collection_total' # None)
                => \/ (pc = "count" /\ loop_end'.count \in {"partial", "empty"})
                   \/ (pc = "scrape" /\ loop_end'.scrape = "natural")]_vars

\* C11 (statistics count versus enumeration): the step that reads the
\* statistics leaves a total that is exact from a complete enumeration as it
\* is, and when it replaces the total the new value is the statistics' count,
\* which is not empty and is not a page size.
C11_StatsKeepsExactTotal ==
    [][pc = "stats" =>
          /\ (Confidence(total_origin) = 2 => collection_total' = collection_total)
          /\ (collection_total' # collection_total =>
                 /\ Truthy(collection_total')
                 /\ collection_total' = provider.stats_total
                 /\ collection_total' \notin {EvmPageSize, SolPageSize})]_vars

\* C12 (empty-page rule): a pagination loop does not stop as ended on an
\* empty page unless the page before it in the loop was empty too, and it
\* makes no request after two consecutive empty pages.
C12_EmptyPageRetriedOnce ==
    [][/\ (/\ pc = "count" /\ pc' = "scrape"
           /\ loop_end'.count \in {"empty", "partial"}
           /\ response'.n = 0)
              => (fetches.count >= 1 /\ response.n = 0)
       /\ (/\ pc = "scrape" /\ pc' = "done"
           /\ loop_end'.scrape \in {"empty", "notfound", "natural"}
           /\ response'.n = 0)
              => (fetches.scrape >= 1 /\ response.n = 0)
       /\ (pc = "count" /\ consecutive_empty_pages >= 2) => fetches' = fetches]_vars

\* C13 (natural end): with no total from the statistics, a scrape iteration
\* whose page has at least one item, fewer than page_size items and no cursor
\* ends the walk, and if no total was known the "complete" message gives the
\* number of items accumulated as the total.
C13_PartialPageEndsWalk ==
    [][(/\ pc = "scrape"
        /\ provider.stats_total = None
        /\ fetches'.scrape = fetches.scrape + 1
        /\ loop_end'.scrape # "error"
        /\ response'.n \in 1..(PageSize(chain) - 1)
        /\ ~response'.cursor)
          => /\ pc' = "done"
             /\ collection_total = None
                   => complete'.collection_total = total_scraped']_vars

\* C14 (full page without cursor is bounded), with no total from the
\* statistics: a loop whose requests so far
\* were all without cursor and were answered with full pages without cursor
\* makes at most one request more without cursor: against the provider that
\* answers full pages without cursor, the third request of the scrape loop
\* carries a cursor made from the last item, and the count loop never is
\* about to send a third request without cursor.
C14_CursorlessFullPageBounded ==
    /\ (/\ pc = "scrape" /\ provider.mode = "fullpage"
        /\ provider.stats_total = None /\ fetches.scrape >= 2)
          => cursor # NoCursor
    /\ (pc = "count" /\ fetches.count >= 2) => current_cursor # NoCursor

\* What a "complete" message shows of the walk's completeness: its remaining
\* field (web_server.py 1479-1483) is unknown or above 0 exactly when
\* collection_total is unknown or above total_scraped.
ShowsIncomplete(msg) ==
    \/ ~Truthy(msg.collection_total)
    \/ msg.total_scraped < msg.collection_total

\* C15 (truncation is distinguishable), with no total from the statistics:
\* the "complete" message of a walk that the page ceiling of the scrape loop
\* ended does not read as that of a walk that saw its whole collection; it
\* shows an unknown total or items remaining.
C15_TruncationVisible ==
    (pc = "done" /\ loop_end.scrape = "limit" /\ provider.stats_total = None)
        => ShowsIncomplete(complete)

\* C16 (no silent wrong total on an aborted walk), with no total from the
\* statistics: once a page request of the count loop has raised after pages
\* were counted, the walk sends no further page request and its total stays
\* unknown; a scrape loop whose request raised sends no further request.
C16_AbortedWalkUnknownTotal ==
    /\ (/\ provider.stats_total = None
        /\ loop_end.count = "error"
        /\ total_counted > 0)
          => /\ collection_total = None
             /\ fetches.scrape = 0
             /\ (complete.sent => complete.collection_total = None)
    /\ loop_end.scrape = "error" => pc = "done"

\* No source of the call returned data: each is not in `results` (not asked,
\* or its call raised) or answered with an empty payload.
NoSourceData ==
    LET in == stats_call.in IN
    /\ in.helius.ok => EmptyAnswer(in.helius)
    /\ in.magiceden.ok => EmptyAnswer(in.magiceden)
    /\ in.alchemy.ok => ~in.alchemy.data
    /\ in.reservoir.ok => EmptyAnswer(in.reservoir)
    /\ in.moralis.ok => EmptyAnswer(in.moralis)
    /\ in.selenium.ok => EmptyAnswer(in.selenium)

\* C17 (merge never fails): when no source returned data, the record that
\* get_collection_stats returns has the requested address as contract_address
\* and as name, and no other field.
C17_NoDataGivesIdentityRecord ==
    (stats_call.phase = "returned" /\ NoSourceData) =>
        /\ stats_call.ident = [contract_address |-> contract_address,
                               name |-> contract_address]
        /\ stats_call.out = EmptyStats

StatsSources == {"helius", "magiceden", "alchemy", "reservoir", "moralis", "selenium"}

\* The source src answered the call with an empty payload.
EmptyPayload(in, src) ==
    /\ in[src].ok
    /\ IF src = "alchemy" THEN ~in.alchemy.data ELSE EmptyAnswer(in[src])

\* The answers in, with the source src not in `results`.
Without(in, src) == [in EXCEPT ![src] = [@ EXCEPT !.ok = FALSE]]

\* C18 (failed or empty equals absent): the record returned when a source
\* answered with an empty payload is, field by field, the record merged from
\* the same answers of the other sources without that source.
C18_EmptyEqualsAbsent ==
    stats_call.phase = "returned" =>
        \A src \in StatsSources :
            EmptyPayload(stats_call.in, src) =>
                /\ stats_call.out = MergeStats(stats_call.chain,
                                               Without(stats_call.in, src))
                /\ stats_call.ident = MergeIdentity(stats_call.chain,
                                                    Without(stats_call.in, src))

\* C19 (arrival-order independence): whatever the order in which the tasks
\* completed, the record returned is the one merged from the sources'
\* outcomes, which the order does not enter.
C19_OrderIndependent ==
    stats_call.phase = "returned" =>
        /\ stats_call.out = MergeStats(stats_call.chain, stats_call.in)
        /\ stats_call.ident = MergeIdentity(stats_call.chain, stats_call.in)

\* A call has returned whose fallback source completed first and whose base
\* source completed last, both with data, the marketplace source too.
C19_BaseArrivedLast ==
    /\ stats_call.phase = "returned"
    /\ stats_call.chain = "ethereum"
    /\ stats_call.arrived[1] = "selenium"
    /\ stats_call.arrived[4] = "alchemy"
    /\ stats_call.in.alchemy.data
    /\ Truthy(stats_call.in.reservoir.tokenCount)
    /\ Truthy(stats_call.in.selenium.floor_price)
    /\ stats_call.out.total_supply = MarketSupply

\* C20 (no adapter is a hard error): a call of get_collection_nfts,
\* get_wallet_nfts or get_collection_stats for a chain that has no client
\* ends with an exception; it returns no result.
C20_NoAdapterIsHardError ==
    (/\ scout_call.phase = "returned"
     /\ GetClientForChain(scout_call.chain, scout_call.clients) = NoClient)
        => scout_call.result.raised

\* The clients whose method fetches a page of a collection.
PageFetchClients == {"helius", "alchemy", "moralis"}

\* Every request of the call was answered 404.
AllNotFound ==
    \A i \in 1..Len(adapter.attempts) : adapter.attempts[i].status = 404

\* C21: a page-fetch method of a client (HeliusClient.get_collection_nfts,
\* AlchemyClient.get_contract_nfts, MoralisClient.get_contract_nfts) whose
\* requests the provider answered with 404 returns a page without items and
\* without a cursor, and raises nothing.
C21_NotFoundGivesEmptyPage ==
    (/\ adapter.phase = "returned"
     /\ adapter.client \in PageFetchClients
     /\ AllNotFound)
        => /\ ~adapter.result.raised
           /\ adapter.result.n = 0
           /\ ~adapter.result.cursor

\* C22: at any time at most max_workers provider calls are in flight over all
\* running NFTScout operations (wallet fetches, statistics tasks, collection
\* page fetches), and an operation whose provider call is over, with an answer
\* or with an exception, holds no permit of the worker semaphore.
C22_InFlightBounded ==
    workers.phase = "running" =>
        /\ Cardinality(InFlight(workers.ops)) <= MaxWorkers
        /\ \A o \in OperationIds :
              workers.ops[o].pc = "done" => o \notin Holding(workers.ops)

\* The clients that can hold several API keys.
SeveralKeys == adapter.phase # "idle" /\ adapter.nkeys >= 2

\* C23: when a request of a client that holds several keys is answered 429
\* and attempts remain, the client has moved to the next key and sends the
\* same request again with that key: the call does not return after the 429.
C23_RateLimitRotatesAndRetries ==
    SeveralKeys =>
        \A i \in 1..Len(adapter.attempts) :
            (adapter.attempts[i].status = 429 /\ i < StopAfterAttempt)
                => \/ /\ adapter.phase = "running"
                      /\ Len(adapter.attempts) = i
                      /\ adapter.current_key_index =
                            (adapter.attempts[i].key + 1) % adapter.nkeys
                   \/ /\ Len(adapter.attempts) > i
                      /\ adapter.attempts[i + 1].endpoint = adapter.attempts[i].endpoint
                      /\ adapter.attempts[i + 1].key =
                            (adapter.attempts[i].key + 1) % adapter.nkeys

\* A transient failure: no answer within the timeout, or a 5xx.
Transient(s) == TimedOut(s) \/ s >= 500

\* The requests of the call that went to the endpoint of the first one.
AttemptsOfFirst ==
    { i \in 1..Len(adapter.attempts) :
         adapter.attempts[i].endpoint = adapter.attempts[1].endpoint }

\* C24: a call whose request kept failing with a transient error has sent it
\* more than once and at most StopAfterAttempt times, and its request
\* function failed; a call that got a 200 on some attempt returns that answer.
C24_TransientRetriedBounded ==
    adapter.phase = "returned" =>
        /\ (\A i \in 1..Len(adapter.attempts) : Transient(adapter.attempts[i].status))
              => /\ Cardinality(AttemptsOfFirst) > 1
                 /\ Cardinality(AttemptsOfFirst) <= StopAfterAttempt
                 /\ adapter.result.failed
        /\ adapter.attempts[Len(adapter.attempts)].status = 200
              => /\ ~adapter.result.failed
                 /\ ~adapter.result.raised

\* A permanent error: a malformed request or an authentication failure.
Permanent(s) == s \in {400, 401}

\* C25: when the first answer to BaseAPIClient._request signals a permanent
\* error, the request is sent exactly once, and the method returns to its
\* caller what it returns for a source without data, raising nothing.
C25_PermanentNotRetried ==
    (/\ adapter.phase # "idle"
     /\ adapter.client = "reservoir"
     /\ Len(adapter.attempts) >= 1
     /\ Permanent(adapter.attempts[1].status))
        => /\ adapter.phase = "returned"
           /\ Len(adapter.attempts) = 1
           /\ ~adapter.result.raised
           /\ adapter.result.n = 0

\* C26: any two requests of one client, those of concurrently running
\* coroutines included, start at least 1/rate_limit seconds apart.
C26_RequestsPaced ==
    limiter.phase = "running" =>
        \A i, j \in 1..Len(limiter.starts) :
            i < j => limiter.starts[j] - limiter.starts[i]
                        >= MinRequestInterval(limiter.rate_limit)

\* C27: within one walk at most one page request is in flight, and the request
\* in flight is the one that follows the last answer received and carries the
\* cursor taken from that answer.
C27_PagesSequential ==
    pager.phase = "running" =>
        /\ Cardinality(pager.in_flight) <= 1
        /\ \A r \in pager.in_flight :
              /\ r.page = pager.answered + 1
              /\ r.cursor = pager.cursor

\* The second page of a loop was requested with the cursor of the first answer.
C27_SecondPageRequested ==
    /\ pager.phase = "running"
    /\ pager.answered >= 1
    /\ pager.page_count = 1
    /\ pager.response.cursor
    /\ \E r \in pager.in_flight : r.cursor = "cur"

\* The name and the description the base source of the call's chain supplied:
\* Helius on Solana, Alchemy (a name only) on EVM.
BaseSupplied ==
    IF stats_call.chain = "solana"
    THEN [name |-> IF stats_call.in.helius.ok /\ ~EmptyAnswer(stats_call.in.helius)
                   THEN "helius" ELSE NoName,
          description |-> IF stats_call.in.helius.ok THEN stats_call.meta.helius
                          ELSE NoName]
    ELSE [name |-> IF stats_call.in.alchemy.ok /\ stats_call.in.alchemy.data
                   THEN "alchemy" ELSE NoName,
          description |-> NoName]

\* C28: a field that is not marketplace-authoritative (name, description and
\* the like) keeps the non-empty value the base source supplied, whatever the
\* overlay sources give, on Solana and on EVM.
C28_OverlayOnlyFillsGaps ==
    stats_call.phase = "returned" =>
        /\ NameGiven(BaseSupplied.name) => stats_call.ident.name = BaseSupplied.name
        /\ NameGiven(BaseSupplied.description)
              => stats_call.description = BaseSupplied.description

\* The base source of the call's chain is not in `results`.
BaseAbsent ==
    IF stats_call.chain = "solana" THEN ~stats_call.in.helius.ok
    ELSE ~stats_call.in.alchemy.ok

\* The values for total_supply and floor_price that the overlay sources asked
\* on the call's chain returned.
OverlayValues ==
    LET in == stats_call.in
        market == IF stats_call.chain = "solana"
                  THEN IF in.magiceden.ok THEN NormalizeMagicEdenCollection(in.magiceden)
                       ELSE EmptyStats
                  ELSE IF in.reservoir.ok THEN NormalizeReservoirCollection(in.reservoir)
                       ELSE EmptyStats
    IN [total_supply |-> { market.total_supply,
                           IF in.moralis.ok THEN in.moralis.total_supply ELSE None,
                           IF in.selenium.ok THEN in.selenium.total_supply ELSE None },
        floor_price |-> { market.floor_price,
                          IF in.selenium.ok THEN in.selenium.floor_price ELSE None }]

\* C29: when the base source of the chain is absent, a field of the merged
\* record is empty only if no overlay source returned a usable value for it.
C29_OverlaySurvivesMissingBase ==
    (stats_call.phase = "returned" /\ BaseAbsent) =>
        \A f \in {"total_supply", "floor_price"} :
            ~Truthy(stats_call.out[f]) => \A v \in OverlayValues[f] : ~Truthy(v)

\* C30: the record get_collection_stats returns has the requested contract
\* address as its contract_address, whichever source served as the base.
C30_ReturnedAddressIsRequested ==
    stats_call.phase = "returned" =>
        stats_call.ident.contract_address = contract_address

\* C31: the total the count loop accumulates, and the collection total it
\* reports, count each (token_id, contract_address) pair at most once: they
\* never exceed the number of distinct pairs the count loop has received.
C31_CountExcludesDuplicates ==
    provider.stats_total = None =>
        /\ total_counted <= Cardinality(counted_pairs)
        /\ total_origin \in {"counted", "truncated"} =>
               collection_total <= Cardinality(counted_pairs)

\* C32: when walks for different Solana collections interleave on the one
\* HeliusClient, the total of a page response of a walk is never taken from
\* a value that the other walk stored in _collection_total / _last_total for
\* another collection.
DifferentCollections ==
    /\ shared.phase = "running"
    /\ \A c \in ConnectionIds : shared.conn[c].kind = "scrape_collection"
    /\ \A c1, c2 \in ConnectionIds :
          c1 # c2 => shared.conn[c1].requested # shared.conn[c2].requested

C32_WalksIndependent ==
    DifferentCollections =>
        \A c \in ConnectionIds :
           LET ret == shared.conn[c].last IN
           Truthy(ret.total) => (ret.by.conn = c \/ ret.by.addr = ret.address)

\* C33: the total of a page response of an enumeration or an info query that
\* started after the other requests were over, and whose own page is the
\* whole collection (fewer items than a page, no cursor), is not a different
\* value that an earlier enumeration stored.
StoredByEnumeration(by) ==
    /\ by.conn \in ConnectionIds
    /\ shared.conn[by.conn].kind = "scrape_collection"

C33_TotalScopedToWalk ==
    shared.phase = "running" =>
        \A c \in ConnectionIds :
           LET w == shared.conn[c]
               ret == w.last
           IN (/\ w.after
               /\ Truthy(ret.total)
               /\ ~ret.cursor /\ ret.n < SolPageSize
               /\ ret.total # ret.n)
              => (ret.by.conn = c \/ ~StoredByEnumeration(ret.by))

C35_StatsFetchedFresh ==
    (pc \in {"count", "scrape", "done"} /\ Truthy(session.stats_cache))
        => ~session.stats_hit

\* C36: a call of RedisStorage.get_cache, set_cache or delete_cache during
\* which the connection or the Redis command raised returns normally, and
\* get_cache returns None; no exception reaches the caller.
C36_RedisFailureIsMiss ==
    (redis_call.phase = "running" /\ redis_call.outcome.failed)
        => /\ redis_call.outcome.raised = "none"
           /\ redis_call.outcome.value = None

\* C37: NFTScout.get_wallet_nfts returns a cached list only to a request
\* with the cursor of the request that produced the list.
C37_WalletCacheRespectsCursor ==
    (wallet_call.phase = "running" /\ wallet_call.last.hit)
        => wallet_call.last.of_cursor = wallet_call.last.request

\* C38: the scrape loop begins with its page counter at 0, whether or not the
\* count loop ran before it: when the scrape loop is about to send its first
\* request, page_count = 0.
C38_ScrapeStartsAtPageZero ==
    (pc = "scrape" /\ fetches.scrape = 0) => page_count = 0

\* C39: a 429 answered to ReservoirClient._request ends in the retryable
\* error, for a client with keys and for one without: the call goes on to the
\* next attempt unless StopAfterAttempt attempts were made, and
\* current_key_index stays within 0 and max(1, len(api_keys)).
C39_RateLimitIsRetried ==
    (adapter.phase \in {"running", "returned"} /\ adapter.client = "reservoir")
        => /\ 0 <= adapter.current_key_index
           /\ adapter.current_key_index < (IF adapter.nkeys > 1 THEN adapter.nkeys ELSE 1)
           /\ (/\ adapter.phase = "returned"
               /\ Len(adapter.attempts) > 0
               /\ adapter.attempts[Len(adapter.attempts)].status = 429)
                  => Len(adapter.attempts) = StopAfterAttempt

\* The timestamps check_rate_limit accepted for ip from tick a to tick
\* a + RateLimitWindow, both included.
AcceptedInWindow(ip, a) ==
    Cardinality({ j \in DOMAIN webhook.accepted[ip] :
                    /\ a <= webhook.accepted[ip][j]
                    /\ webhook.accepted[ip][j] <= a + RateLimitWindow })

\* The events of ip that webhook_events holds.
EventsOf(ip) ==
    Cardinality({ j \in DOMAIN webhook.webhook_events :
                    webhook.webhook_events[j].ip = ip })

\* C40: for every ip, at most MAX_EVENTS_PER_IP of the requests that
\* check_rate_limit accepted have their timestamps within any window of
\* RATE_LIMIT_WINDOW; a refused request is not recorded: rate_limit_store
\* holds only the latest accepted timestamps and webhook_events only
\* events of accepted requests; and webhook_events never holds more than
\* MAX_EVENTS events.
C40_RateLimiterBounds ==
    webhook.phase = "running" =>
        /\ \A ip \in Ips :
             /\ \A a \in 0..MaxClock : AcceptedInWindow(ip, a) <= MaxEventsPerIp
             /\ \E k \in 0..Len(webhook.accepted[ip]) :
                  webhook.rate_limit_store[ip] =
                      SubSeq(webhook.accepted[ip], k + 1, Len(webhook.accepted[ip]))
             /\ EventsOf(ip) <= Len(webhook.accepted[ip])
        /\ Len(webhook.webhook_events) <= MaxEvents

\* A request was just refused for an ip whose window is full, after an older
\* timestamp of that ip had left the window, and webhook_events, full, has
\* discarded an event.
C40_RefusedAtFullWindow ==
    /\ webhook.phase = "running"
    /\ webhook.last.ip \in Ips
    /\ ~webhook.last.allowed
    /\ Len(webhook.accepted[webhook.last.ip]) > MaxEventsPerIp
    /\ Len(webhook.rate_limit_store[webhook.last.ip]) = MaxEventsPerIp
    /\ Len(webhook.webhook_events) = MaxEvents
    /\ webhook.evicted

====
